---- MODULE Spec2Model ----
(***************************************************************************)
(* Model of the trace viewer's parser (src/trace_viewer/parser.py) and     *)
(* sub-agent detector (src/trace_viewer/subagent_detector.py), and of the  *)
(* slides tool's retry_file_operation (src/amplifier/slides_tool/utils.py),*)
(* checkpoints (src/amplifier/slides_tool/state_manager.py) and            *)
(* auto_improve (src/amplifier/slides_tool/review/orchestrator.py).        *)
(*                                                                         *)
(* Python values are modelled as tagged records: a JSON object is a record *)
(* with t = "obj" whose optional keys are options (<<>> = key absent,      *)
(* <<v>> = key present with value v); Python None is [t |-> "none"]; a     *)
(* string is [t |-> "str", v |-> <sequence of tokens>].  An exception that *)
(* leaves a function is modelled by the exc field / the pc "raised".       *)
(***************************************************************************)
EXTENDS Integers, Sequences, FiniteSets, TLC

VARIABLES
    file,             \* the lines of the trace file read so far (parse_trace_file: f)
    line_num,         \* enumerate(f, 1): number of the last line read
    entries,          \* parse_trace_file: entries
    pc,               \* position of the running call
    det_i,            \* detect_subagent_conversations: position of the for loop
    active_subagent,  \* detect_subagent_conversations: active_subagent
    prev_msg_count,   \* detect_subagent_conversations: prev_msg_count
    pre_detect,       \* history: entries as they were when the detector was called
    body_raw,         \* _parse_sse_events_detailed: lines = body_raw.split("\n")
    sse_i,            \* _parse_sse_events_detailed: position of the for loop
    sse,              \* _parse_sse_events_detailed: events, current_event, content_blocks, content_block_refs
    summary,          \* _process_entry: result["summary"] of the stream's entry
    record,           \* _process_entry: entry, the decoded record of one call
    processed,        \* _process_entry: result, once the call has returned
    directory,        \* list_trace_files: directory, as the file system holds it
    files,            \* list_trace_files: files, once the call has returned
    retry,            \* retry_file_operation: func, max_retries, attempt, delay, last_error
    manager,          \* StateManager: the checkpoints directory, the clock, a QuickSave
    improve           \* RevisionOrchestrator.auto_improve: request, iterations, previous_score

vars == <<file, line_num, entries, pc, det_i, active_subagent, prev_msg_count,
          pre_detect, body_raw, sse_i, sse, summary, record, processed, directory, files,
          retry, manager, improve>>

fileVars == <<file, line_num, entries, det_i, active_subagent, prev_msg_count, pre_detect>>
streamVars == <<body_raw, sse_i, sse, summary>>
callVars == <<record, processed, directory, files>>
toolVars == <<retry, manager, improve>>

-----------------------------------------------------------------------------
(* Options and dictionaries *)

None == <<>>
Some(x) == <<x>>
IsSome(o) == o # <<>>
Get(o) == o[1]
GetOr(o, d) == IF o = <<>> THEN d ELSE o[1]

PyNone == [t |-> "none"]
JStr(s) == [t |-> "str", v |-> s]
JNum(n) == [t |-> "num", v |-> n]
JArr(n) == [t |-> "arr", len |-> n]
IsDict(x) == x.t = "obj"
IsStr(x) == x.t = "str"

EmptyDict == [k \in {} |-> <<>>]
DictSet(d, k, v) == [x \in (DOMAIN d) \cup {k} |-> IF x = k THEN v ELSE d[x]]
DictDel(d, k) == [x \in (DOMAIN d) \ {k} |-> d[x]]

Range(s) == {s[i] : i \in DOMAIN s}

RECURSIVE Concat(_)
Concat(ss) == IF ss = <<>> THEN <<>> ELSE Head(ss) \o Concat(Tail(ss))

-----------------------------------------------------------------------------
(* json.loads on the text of a streamed tool input.  A text is a sequence  *)
(* of tokens: "{", "}", ",", a digit "1", or one whole object member:      *)
(*   "R" = "subagent_type":"reviewer"   "B" = "subagent_type":"builder"    *)
(*   "E" = "subagent_type":""           "D" = "description":"x"            *)
(* The grammar decoded is  value ::= number | object,  number ::= "1"+,    *)
(* object ::= "{" "}" | "{" member ("," member)* "}"; anything else is a   *)
(* JSONDecodeError.  A repeated key keeps its last value, as in Python.    *)

Members == {"R", "B", "E", "D"}
Tokens == {"{", "}", ",", "1"} \cup Members

MemberKey(m) == IF m = "D" THEN "description" ELSE "subagent_type"
MemberVal(m) == CASE m = "R" -> "reviewer" [] m = "B" -> "builder" [] m = "E" -> "" [] OTHER -> "x"

IsObjectText(s) ==
    /\ Len(s) >= 2
    /\ s[1] = "{"
    /\ s[Len(s)] = "}"
    /\ \/ Len(s) = 2
       \/ /\ Len(s) % 2 = 1
          /\ \A i \in 2..(Len(s) - 1) : IF i % 2 = 0 THEN s[i] \in Members ELSE s[i] = ","

IsNumberText(s) == Len(s) >= 1 /\ \A i \in 1..Len(s) : s[i] = "1"

RECURSIVE NumberValue(_)
NumberValue(s) == IF s = <<>> THEN 0 ELSE 10 * NumberValue(SubSeq(s, 1, Len(s) - 1)) + 1

SetMax(S) == CHOOSE x \in S : \A y \in S : y <= x

LastMember(s, key) ==
    LET at == {i \in 1..Len(s) : s[i] \in Members /\ MemberKey(s[i]) = key}
    IN  IF at = {} THEN None ELSE Some(MemberVal(s[SetMax(at)]))

JsonDecodeError == "JSONDecodeError"

json_loads(s) ==
    IF IsObjectText(s)
    THEN [ok |-> TRUE,
          v |-> [t |-> "obj",
                 subagent_type |-> LastMember(s, "subagent_type"),
                 description |-> LastMember(s, "description")]]
    ELSE IF IsNumberText(s)
    THEN [ok |-> TRUE, v |-> JNum(NumberValue(s))]
    ELSE [ok |-> FALSE, v |-> PyNone]

-----------------------------------------------------------------------------
(* _parse_sse_events_detailed.  A line of body_raw is one of               *)
(*   [k |-> "event", name |-> n]       "event: n"                          *)
(*   [k |-> "data", payload |-> p]     "data: ..." with p one of           *)
(*        [p |-> "empty"]  nothing after "data: "                          *)
(*        [p |-> "done"]   the [DONE] sentinel                             *)
(*        [p |-> "text", v |-> s]  text that json.loads rejects            *)
(*        [p |-> "json", v |-> x]  text that json.loads decodes to x       *)
(*   [k |-> "blank"]                   an empty line                       *)
(*   [k |-> "other"]                   any other line                      *)
(* current_event and content_block_refs refer to events by position.       *)

SseStart == [events |-> <<>>, cur |-> 0, content_blocks |-> EmptyDict,
             content_block_refs |-> EmptyDict, exc |-> ""]

SseRaise(st, e) == [st EXCEPT !.exc = e]

\* the new event put in front of the list instead of at its end
sse_event_line_prepends(st, line) ==
    [st EXCEPT !.events = <<[type |-> line.name, raw |-> <<line>>, data |-> PyNone]>> \o @,
               !.cur = 1]

\* line 261-265
sse_event_line(st, line) ==
    [st EXCEPT !.events = Append(@, [type |-> line.name, raw |-> <<line>>, data |-> PyNone]),
               !.cur = Len(st.events) + 1]

\* "content_block" in start_event["data"]  (line 318, 325)
HasContentBlock(data) ==
    CASE data.t = "obj" -> [exc |-> "", has |-> IsSome(data.content_block)]
      [] data.t \in {"none", "num"} -> [exc |-> "TypeError", has |-> FALSE]
      [] OTHER -> [exc |-> "", has |-> FALSE]

\* start_event["data"]["content_block"][...] = ...  (lines 319, 326-327)
StoreInput(st, pos, loaded, accumulated_json) ==
    LET data == st.events[pos].data
        h == HasContentBlock(data)
    IN  IF h.exc # "" THEN SseRaise(st, h.exc)
        ELSE IF ~h.has THEN st
        ELSE IF ~IsDict(Get(data.content_block)) THEN SseRaise(st, "TypeError")
        ELSE IF loaded.ok
        THEN [st EXCEPT !.events[pos].data.content_block[1].input = Some(loaded.v)]
        ELSE [st EXCEPT !.events[pos].data.content_block[1].input_raw = Some(JStr(accumulated_json)),
                        !.events[pos].data.content_block[1].input_parse_error = Some(JsonDecodeError)]

\* lines 279-288
sse_block_start(st) ==
    LET data == st.events[st.cur].data IN
    IF ~IsDict(data) THEN SseRaise(st, "AttributeError")
    ELSE LET block_index == data.index
             content_block == data.content_block
         IN  IF block_index = None \/ content_block = None THEN st
             ELSE IF ~IsDict(Get(content_block)) THEN SseRaise(st, "AttributeError")
             ELSE IF Get(content_block).type = Some("tool_use")
             THEN [st EXCEPT !.content_blocks = DictSet(@, Get(block_index), <<>>),
                             !.content_block_refs = DictSet(@, Get(block_index), st.cur)]
             ELSE st

\* the fragment assigned instead of appended
AccumulateLast(acc, partial_json) == partial_json

\* content_blocks[block_index] += partial_json  (line 302)
Accumulate(acc, partial_json) == acc \o partial_json

\* one accumulator for all open blocks: the fragment appended to the text
\* of every open tool-use block
sse_block_delta_shared(st) ==
    LET data == st.events[st.cur].data IN
    IF ~IsDict(data) THEN SseRaise(st, "AttributeError")
    ELSE LET block_index == data.index
             delta == data.delta
         IN  IF block_index = None \/ Get(block_index) \notin DOMAIN st.content_blocks THEN st
             ELSE IF delta = None THEN st
             ELSE IF ~IsDict(Get(delta)) THEN SseRaise(st, "AttributeError")
             ELSE IF Get(delta).type # Some("input_json_delta") THEN st
             ELSE LET partial_json == GetOr(Get(delta).partial_json, JStr(<<>>))
                  IN  IF ~IsStr(partial_json) THEN SseRaise(st, "TypeError")
                      ELSE [st EXCEPT !.content_blocks =
                                [x \in DOMAIN @ |-> @[x] \o partial_json.v]]

\* lines 290-302
sse_block_delta(st) ==
    LET data == st.events[st.cur].data IN
    IF ~IsDict(data) THEN SseRaise(st, "AttributeError")
    ELSE LET block_index == data.index
             delta == data.delta
         IN  IF block_index = None \/ Get(block_index) \notin DOMAIN st.content_blocks THEN st
             ELSE IF delta = None THEN st
             ELSE IF ~IsDict(Get(delta)) THEN SseRaise(st, "AttributeError")
             ELSE IF Get(delta).type # Some("input_json_delta") THEN st
             ELSE LET partial_json == GetOr(Get(delta).partial_json, JStr(<<>>))
                  IN  IF ~IsStr(partial_json) THEN SseRaise(st, "TypeError")
                      ELSE [st EXCEPT !.content_blocks[Get(block_index)] =
                                          Accumulate(@, partial_json.v)]

\* the stop that only deletes the accumulators and writes no input
sse_block_stop_drops(st) ==
    LET data == st.events[st.cur].data IN
    IF ~IsDict(data) THEN SseRaise(st, "AttributeError")
    ELSE LET block_index == data.index IN
         IF block_index = None \/ Get(block_index) \notin DOMAIN st.content_blocks THEN st
         ELSE [st EXCEPT !.content_blocks = DictDel(@, Get(block_index)),
                         !.content_block_refs = DictDel(@, Get(block_index))]

\* lines 304-332
sse_block_stop(st) ==
    LET data == st.events[st.cur].data IN
    IF ~IsDict(data) THEN SseRaise(st, "AttributeError")
    ELSE LET block_index == data.index IN
         IF block_index = None \/ Get(block_index) \notin DOMAIN st.content_blocks THEN st
         ELSE LET i == Get(block_index)
                  accumulated_json == st.content_blocks[i]
                  st1 == IF accumulated_json # <<>> /\ i \in DOMAIN st.content_block_refs
                         THEN StoreInput(st, st.content_block_refs[i],
                                         json_loads(accumulated_json), accumulated_json)
                         ELSE st
              IN  IF st1.exc # "" THEN st1
                  ELSE [st1 EXCEPT !.content_blocks = DictDel(@, i),
                                   !.content_block_refs = DictDel(@, i)]

\* the data line without the test for the [DONE] sentinel: the sentinel is
\* no JSON and is kept as the event's data
sse_data_line_keeps_done(st, line) ==
    IF st.cur = 0 THEN st
    ELSE CASE line.payload.p = "empty" -> st
           [] line.payload.p = "done" ->
                [st EXCEPT !.events[st.cur].data = JStr(<<"[DONE]">>),
                           !.events[st.cur].raw = Append(@, line)]
           [] line.payload.p = "text" ->
                [st EXCEPT !.events[st.cur].data = JStr(line.payload.v),
                           !.events[st.cur].raw = Append(@, line)]
           [] OTHER ->
                LET st1 == [st EXCEPT !.events[st.cur].data = line.payload.v,
                                      !.events[st.cur].raw = Append(@, line)]
                    event_type == st1.events[st1.cur].type
                IN  CASE event_type = "content_block_start" -> sse_block_start(st1)
                      [] event_type = "content_block_delta" -> sse_block_delta(st1)
                      [] event_type = "content_block_stop" -> sse_block_stop(st1)
                      [] OTHER -> st1

\* lines 267-336
sse_data_line(st, line) ==
    IF st.cur = 0 THEN st
    ELSE CASE line.payload.p \in {"empty", "done"} -> st
           [] line.payload.p = "text" ->
                [st EXCEPT !.events[st.cur].data = JStr(line.payload.v),
                           !.events[st.cur].raw = Append(@, line)]
           [] OTHER ->
                LET st1 == [st EXCEPT !.events[st.cur].data = line.payload.v,
                                      !.events[st.cur].raw = Append(@, line)]
                    event_type == st1.events[st1.cur].type
                IN  CASE event_type = "content_block_start" -> sse_block_start(st1)
                      [] event_type = "content_block_delta" -> sse_block_delta(st1)
                      [] event_type = "content_block_stop" -> sse_block_stop(st1)
                      [] OTHER -> st1

\* one iteration of the loop of lines 258-336
sse_line(st, line) ==
    CASE line.k = "event" -> sse_event_line(st, line)
      [] line.k = "data" -> sse_data_line(st, line)
      [] OTHER -> st

RECURSIVE sse_run(_, _)
sse_run(st, lines) ==
    IF lines = <<>> \/ st.exc # "" THEN st
    ELSE sse_run(sse_line(st, Head(lines)), Tail(lines))

\* lines 241-338: the events, or the exception that left the function
_parse_sse_events_detailed(raw) == sse_run(SseStart, raw)


-----------------------------------------------------------------------------
(* Helpers of _process_entry.  A dict with free keys (headers) is          *)
(* [t |-> "obj", d |-> <function from key to value>]; the request, the     *)
(* response and the request body are dicts with the keys the code reads.   *)
(* A URL is a string of tokens, among them "://", "/" and "?".  A          *)
(* timestamp is a number of microseconds (epoch seconds, six decimals).    *)

Truthy(x) ==
    CASE x.t = "none" -> FALSE
      [] x.t = "num" -> x.v # 0
      [] x.t = "str" -> x.v # <<>>
      [] x.t = "arr" -> x.len # 0
      [] OTHER -> TRUE

\* d.get(key): the value, or None when the key is absent
DGet(o) == GetOr(o, PyNone)

\* s.split(sep) on a string of tokens
RECURSIVE Split(_, _)
Split(s, sep) ==
    LET at == {i \in 1..Len(s) : s[i] = sep}
    IN  IF at = {} THEN <<s>>
        ELSE LET i == CHOOSE x \in at : \A y \in at : x <= y
             IN  <<SubSeq(s, 1, i - 1)>> \o Split(SubSeq(s, i + 1, Len(s)), sep)

\* sep.join(parts)
RECURSIVE Join(_, _)
Join(parts, sep) ==
    IF parts = <<>> THEN <<>>
    ELSE IF Len(parts) = 1 THEN parts[1]
    ELSE parts[1] \o <<sep>> \o Join(Tail(parts), sep)

\* lines 229-238
_extract_url_path(url) ==
    IF ~Truthy(url) THEN JStr(<<>>)
    ELSE IF IsStr(url) /\ "://" \in Range(url.v)
    THEN LET rest == Split(url.v, "://")[2]
         IN  IF "/" \in Range(rest)
             THEN JStr(<<"/">> \o Split(Join(Tail(Split(rest, "/")), "/"), "?")[1])
             ELSE JStr(rest)
    ELSE url

\* lines 213-226: None for a falsy timestamp, else the formatted time;
\* datetime.fromtimestamp raises TypeError for a value that is no number
FormatRaises(timestamp) == Truthy(timestamp) /\ timestamp.t # "num"
_format_timestamp(timestamp) ==
    IF ~Truthy(timestamp) THEN PyNone ELSE [t |-> "hms", of |-> timestamp.v]
_format_timestamp_full(timestamp) ==
    IF ~Truthy(timestamp) THEN PyNone ELSE [t |-> "utc", of |-> timestamp.v]

\* key in x, for x of any type: TypeError when x is not iterable
InRaises(x) == x.t \in {"none", "num"}
In(key, x) ==
    CASE x.t = "obj" -> key \in DOMAIN x.d
      [] x.t = "str" -> key \in Range(x.v)
      [] OTHER -> FALSE

\* the whole milliseconds of d microseconds, rounded to the nearest
DurationMsRounded(d) ==
    IF d >= 0 THEN (d + 500) \div 1000 ELSE -((500 - d) \div 1000)

\* int(duration_s * 1000)  (line 157): the whole milliseconds of a
\* difference of d microseconds; int() truncates toward zero
DurationMs(d) ==
    IF d >= 0 THEN d \div 1000 ELSE -((-d) \div 1000)

\* f"{duration_s:.3f}s"  (line 158): the sign and the nearest thousandth of
\* a second; a negative difference keeps its sign also when it rounds to 0
DurationText(d) ==
    [t |-> "secs3", negative |-> d < 0,
     thousandths |-> ((IF d >= 0 THEN d ELSE -d) + 500) \div 1000]

ApiKeyThreshold == 10
ApiKeySuffixLen == 4

\* "..." + api_key[-4:]  (line 123)
ApiKeySuffix(api_key) ==
    JStr(<<"...">> \o SubSeq(api_key.v, SetMax({1, Len(api_key.v) - ApiKeySuffixLen + 1}), Len(api_key.v)))

IsRateLimitKey(key) == key \in {"anthropic-ratelimit-requests-remaining", "X-RateLimit-Limit"}

DefaultSubagentInfo ==
    [is_subagent |-> FALSE, agent_type |-> None, detection_method |-> None,
     confidence |-> Some(PyNone)]

\* lines 57-103
DefaultResult(entry, index) ==
    [index |-> index,
     raw_entry |-> entry,
     logged_at |-> DGet(entry.logged_at),
     request |-> [timestamp |-> PyNone, timestamp_human |-> PyNone, method |-> PyNone,
                  url |-> PyNone, headers |-> [t |-> "obj", d |-> EmptyDict], body |-> PyNone,
                  query_params |-> PyNone, api_key_suffix |-> PyNone],
     response |-> [timestamp |-> PyNone, timestamp_human |-> PyNone, status_code |-> PyNone,
                   headers |-> [t |-> "obj", d |-> EmptyDict], body |-> PyNone,
                   body_raw |-> PyNone, parsed_events |-> <<>>, request_id |-> PyNone,
                   rate_limits |-> EmptyDict, duration_ms |-> PyNone],
     summary |-> [timestamp |-> PyNone, method |-> PyNone, url_path |-> PyNone,
                  status |-> PyNone, duration |-> PyNone, model |-> PyNone,
                  tokens_used |-> PyNone, error |-> PyNone],
     subagent_info |-> DefaultSubagentInfo]


\* the event test of line 166 without the test of the type
UsageAnyType(event) == TRUE

\* the event test of line 166: which events give their usage to tokens_used
UsageEventType(event) == event.type = "message_delta"

\* lines 165-171: the value left in summary["tokens_used"], or the exception
RECURSIVE ExtractUsage(_, _)
ExtractUsage(events, tokens_used) ==
    IF events = <<>> THEN [exc |-> "", tokens_used |-> tokens_used]
    ELSE LET event == Head(events)
             data == event.data
         IN  IF ~UsageEventType(event) THEN ExtractUsage(Tail(events), tokens_used)
             ELSE IF InRaises(data) THEN [exc |-> "TypeError", tokens_used |-> tokens_used]
             ELSE IF data.t = "str"
             THEN IF "usage" \in Range(data.v)
                  THEN [exc |-> "TypeError", tokens_used |-> tokens_used]
                  ELSE ExtractUsage(Tail(events), tokens_used)
             ELSE IF data.t # "obj" \/ data.usage = None
             THEN ExtractUsage(Tail(events), tokens_used)
             ELSE LET usage == Get(data.usage)
                  IN  IF ~IsDict(usage)
                      THEN [exc |-> "AttributeError", tokens_used |-> tokens_used]
                      ELSE ExtractUsage(Tail(events),
                                        [t |-> "obj",
                                         input |-> DGet(usage.input_tokens),
                                         output |-> DGet(usage.output_tokens)])

\* the headers read without the default of an empty dict
StoredRequestHeadersNoDefault(req) == DGet(req.headers)

\* the value stored in result["request"]["headers"]  (line 112)
StoredRequestHeaders(req) == GetOr(req.headers, [t |-> "obj", d |-> EmptyDict])

\* lines 106-132: the first exception of the request section, "" if none
RequestExc(req) ==
    IF ~IsDict(req) THEN "AttributeError"
    ELSE LET url == GetOr(req.url, JStr(<<>>))
             headers == StoredRequestHeaders(req)
         IN  IF FormatRaises(DGet(req.timestamp)) THEN "TypeError"
             ELSE IF InRaises(url) THEN "TypeError"
             ELSE IF InRaises(headers) THEN "TypeError"
             ELSE IF In("x-api-key", headers) /\ ~IsStr(headers.d["x-api-key"]) THEN "TypeError"
             ELSE ""

\* lines 106-132, when no exception leaves them
RequestSection(result, req) ==
    LET timestamp == DGet(req.timestamp)
        url == GetOr(req.url, JStr(<<>>))
        headers == StoredRequestHeaders(req)
        body == DGet(req.body)
    IN  [result EXCEPT
            !.request.timestamp = timestamp,
            !.request.timestamp_human = _format_timestamp_full(timestamp),
            !.request.method = GetOr(req.method, JStr(<<"GET">>)),
            !.request.url = url,
            !.request.headers = headers,
            !.request.body = body,
            !.request.query_params =
                IF In("?", url) THEN JStr(Split(url.v, "?")[2]) ELSE PyNone,
            !.request.api_key_suffix =
                IF In("x-api-key", headers) /\ Len(headers.d["x-api-key"].v) > ApiKeyThreshold
                THEN ApiKeySuffix(headers.d["x-api-key"])
                ELSE PyNone,
            !.summary.timestamp = _format_timestamp(timestamp),
            !.summary.method = GetOr(req.method, JStr(<<"GET">>)),
            !.summary.url_path = _extract_url_path(url),
            !.summary.model = IF IsDict(body) THEN DGet(body.model) ELSE PyNone]

ErrorStatus == 400

\* lines 135-181: the response section; exc is the first exception, "" if none
ResponseSection(result, entry, resp) ==
    IF ~IsDict(resp) THEN [exc |-> "AttributeError", result |-> result]
    ELSE
    LET timestamp == DGet(resp.timestamp)
        headers == GetOr(resp.headers, [t |-> "obj", d |-> EmptyDict])
        status_code == DGet(resp.status_code)
        body == DGet(resp.body)
        raw == DGet(resp.body_raw)
        timed == /\ resp.timestamp # None
                 /\ entry.request # None
                 /\ Get(entry.request).timestamp # None
        parsed == IF Truthy(raw) /\ IsStr(raw) THEN _parse_sse_events_detailed(raw.v) ELSE SseStart
        usage == ExtractUsage(parsed.events, PyNone)
        exc == IF FormatRaises(timestamp) THEN "TypeError"
               ELSE IF InRaises(headers) THEN "TypeError"
               ELSE IF ~IsDict(headers) THEN "AttributeError"
               ELSE IF timed /\ (timestamp.t # "num" \/ Get(Get(entry.request).timestamp).t # "num")
               THEN "TypeError"
               ELSE IF Truthy(raw) /\ ~IsStr(raw) THEN "AttributeError"
               ELSE IF parsed.exc # "" THEN parsed.exc
               ELSE IF usage.exc # "" THEN usage.exc
               ELSE IF Truthy(status_code) /\ status_code.t # "num" THEN "TypeError"
               ELSE ""
    IN  IF exc # "" THEN [exc |-> exc, result |-> result]
        ELSE [exc |-> "",
              result |-> [result EXCEPT
                !.response.timestamp = timestamp,
                !.response.timestamp_human = _format_timestamp_full(timestamp),
                !.response.status_code = status_code,
                !.response.headers = headers,
                !.response.body = body,
                !.response.body_raw = raw,
                !.response.request_id =
                    IF In("request-id", headers) THEN headers.d["request-id"] ELSE PyNone,
                !.response.rate_limits =
                    [key \in {x \in DOMAIN headers.d : IsRateLimitKey(x)} |-> headers.d[key]],
                !.response.duration_ms =
                    IF timed THEN JNum(DurationMs(timestamp.v - Get(Get(entry.request).timestamp).v))
                    ELSE PyNone,
                !.summary.duration =
                    IF timed
                    THEN DurationText(timestamp.v - Get(Get(entry.request).timestamp).v)
                    ELSE PyNone,
                !.response.parsed_events = parsed.events,
                !.summary.tokens_used = usage.tokens_used,
                !.summary.status = status_code,
                !.summary.error =
                    IF Truthy(status_code) /\ status_code.v >= ErrorStatus
                    THEN IF Truthy(body) THEN body
                         ELSE [t |-> "http_error", code |-> status_code.v]
                    ELSE PyNone]]

\* lines 55-187: the result, or the exception that leaves the function
_process_entry(entry, index) ==
    IF ~IsDict(entry) THEN [exc |-> "AttributeError", result |-> PyNone]
    ELSE LET r0 == DefaultResult(entry, index)
             rexc == IF entry.request = None THEN "" ELSE RequestExc(Get(entry.request))
             r1 == IF entry.request = None \/ rexc # "" THEN r0
                   ELSE RequestSection(r0, Get(entry.request))
         IN  IF rexc # "" THEN [exc |-> rexc, result |-> PyNone]
             ELSE IF entry.response = None THEN [exc |-> "", result |-> r1]
             ELSE LET r2 == ResponseSection(r1, entry, Get(entry.response))
                  IN  IF r2.exc # "" THEN [exc |-> r2.exc, result |-> PyNone]
                      ELSE r2


-----------------------------------------------------------------------------
(* subagent_detector.py.  The functions read the entries parse_trace_file  *)
(* built: a normal entry has all keys of DefaultResult, an error entry has *)
(* only index, error and raw_line.                                         *)

Has(entry, key) == key \in DOMAIN entry

\* len(x): TypeError for None and numbers
LenRaises(x) == x.t \in {"none", "num"}
PyLen(x) == IF x.t = "str" THEN Len(x.v) ELSE x.len

\* lines 57-63
_get_message_count(entry) ==
    IF Has(entry, "request") /\ IsDict(entry.request.body)
    THEN LET messages == GetOr(entry.request.body.messages, JArr(0))
         IN  IF LenRaises(messages) THEN [exc |-> "TypeError", n |-> 0]
             ELSE [exc |-> "", n |-> PyLen(messages)]
    ELSE [exc |-> "", n |-> 0]

\* lines 71-83: the loop over parsed_events; agent is the value returned
\* (None for Python's None), exc the exception that leaves the function
RECURSIVE TaskScan(_)
TaskScan(events) ==
    IF events = <<>> THEN [exc |-> "", agent |-> None]
    ELSE LET event == Head(events)
             data == event.data
         IN  IF event.type # "content_block_start" THEN TaskScan(Tail(events))
             ELSE IF ~IsDict(data) THEN [exc |-> "AttributeError", agent |-> None]
             ELSE IF data.content_block = None THEN TaskScan(Tail(events))
             ELSE LET content_block == Get(data.content_block)
                  IN  IF ~IsDict(content_block) THEN [exc |-> "AttributeError", agent |-> None]
                      ELSE IF content_block.type = Some("tool_use") /\ content_block.name = Some("Task")
                      THEN LET input_data == GetOr(content_block.input,
                                                   [t |-> "obj", subagent_type |-> None])
                           IN  IF IsDict(input_data)
                               THEN [exc |-> "", agent |-> input_data.subagent_type]
                               ELSE TaskScan(Tail(events))
                      ELSE TaskScan(Tail(events))

\* lines 66-83
_get_task_subagent_type(entry) ==
    IF ~Has(entry, "response") THEN [exc |-> "", agent |-> None]
    ELSE TaskScan(entry.response.parsed_events)

MainAgentMarker == <<"You", "are", "Claude", "Code">>

StartsWith(s, prefix) == Len(s) >= Len(prefix) /\ SubSeq(s, 1, Len(prefix)) = prefix

\* lines 86-118
_is_infrastructure_request(entry) ==
    IF ~Has(entry, "request") \/ ~IsDict(entry.request.body) THEN [exc |-> "", is |-> FALSE]
    ELSE LET body == entry.request.body
             messages == GetOr(body.messages, JArr(0))
             system0 == GetOr(body.system, JStr(<<>>))
             first == system0.items[1]
             system == IF system0.t = "arr" /\ system0.len > 0
                       THEN IF IsDict(first) THEN GetOr(first.text, JStr(<<>>)) ELSE first
                       ELSE system0
         IN  IF LenRaises(messages) THEN [exc |-> "TypeError", is |-> FALSE]
             ELSE IF PyLen(messages) # 1 THEN [exc |-> "", is |-> FALSE]
             ELSE IF ~IsStr(system) THEN [exc |-> "", is |-> FALSE]
             ELSE [exc |-> "", is |-> ~StartsWith(system.v, MainAgentMarker)]

JumpThreshold == 50

\* the test of line 42 without the threshold
ReturnsOnAnyIncrease(active, prev, msg_count) ==
    active # None /\ prev > 0 /\ msg_count > prev

\* the test of line 42
ReturnsToMain(active, prev, msg_count) ==
    active # None /\ prev > 0 /\ msg_count > prev + JumpThreshold

\* the entry replaced by the tag instead of given it
TagReplacesEntry(entry, agent) ==
    [index |-> entry.index,
     subagent_info |-> [is_subagent |-> TRUE, agent_type |-> agent,
                        detection_method |-> Some("conversation_flow"),
                        confidence |-> None]]

\* the tag of an entry that is tagged already taken back
TagToggles(entry, agent) ==
    ("subagent_info" :>
        (IF Has(entry, "subagent_info") /\ entry.subagent_info.is_subagent
         THEN DefaultSubagentInfo
         ELSE [is_subagent |-> TRUE, agent_type |-> agent,
               detection_method |-> Some("conversation_flow"), confidence |-> None])) @@ entry

\* entry["subagent_info"] = {...}  (lines 48-52)
Tag(entry, agent) ==
    ("subagent_info" :> [is_subagent |-> TRUE, agent_type |-> agent,
                         detection_method |-> Some("conversation_flow"),
                         confidence |-> None]) @@ entry

\* if task_agent:  (line 27)
TaskTruthy(agent) == agent # None /\ Get(agent) # ""

\* the branch one iteration of the loop of lines 24-54 takes
DetectBranch(entry) ==
    LET task == _get_task_subagent_type(entry)
        infra == _is_infrastructure_request(entry)
        count == _get_message_count(entry)
    IN  IF task.exc # "" THEN "raise"
        ELSE IF TaskTruthy(task.agent)
        THEN IF count.exc # "" THEN "raise" ELSE "task"
        ELSE IF infra.exc # "" THEN "raise"
        ELSE IF infra.is THEN "infrastructure"
        ELSE IF count.exc # "" THEN "raise"
        ELSE "conversation"

\* one iteration of the loop of lines 24-54 on entry, from the detector
\* state d = [active_subagent, prev_msg_count, exc]; gives the new state
\* and the entry as the iteration leaves it
detect_entry(d, entry) ==
    LET branch == DetectBranch(entry)
        msg_count == _get_message_count(entry).n
    IN  CASE branch = "raise" -> [d |-> [d EXCEPT !.exc = "Error"], entry |-> entry]
          [] branch = "task" ->
                [d |-> [d EXCEPT !.active_subagent = _get_task_subagent_type(entry).agent,
                                 !.prev_msg_count = msg_count],
                 entry |-> entry]
          [] branch = "infrastructure" -> [d |-> d, entry |-> entry]
          [] OTHER ->
                LET active == IF ReturnsToMain(d.active_subagent, d.prev_msg_count, msg_count)
                              THEN None ELSE d.active_subagent
                IN  [d |-> [d EXCEPT !.active_subagent = active, !.prev_msg_count = msg_count],
                     entry |-> IF active # None THEN Tag(entry, active) ELSE entry]

DetectStart == [active_subagent |-> None, prev_msg_count |-> 0, exc |-> ""]

\* lines 6-54 as a function: the loop from position i on
RECURSIVE detect_from(_, _, _)
detect_from(d, es, i) ==
    IF i > Len(es) \/ d.exc # "" THEN [d |-> d, entries |-> es]
    ELSE LET r == detect_entry(d, es[i])
         IN  detect_from(r.d, [es EXCEPT ![i] = r.entry], i + 1)

detect_subagent_conversations(es) == detect_from(DetectStart, es, 1)


-----------------------------------------------------------------------------
(* Inputs.  A line of the trace file is                                    *)
(*   [kind |-> "blank"]               a line that is empty after strip()   *)
(*   [kind |-> "text", len |-> n]     n characters json.loads rejects      *)
(*   [kind |-> "json", v |-> x]       text json.loads decodes to x         *)

MaxLines == 3
MaxConversation == 4
MaxFlow == 5

Req(headers, url, body) ==
    [t |-> "obj", timestamp |-> Some(JNum(100000000)), method |-> Some(JStr(<<"POST">>)),
     url |-> url, headers |-> headers, body |-> body]

Body(n, system) ==
    [t |-> "obj", model |-> Some(JStr(<<"claude">>)), messages |-> Some(JArr(n)),
     system |-> system]

Resp(stream) ==
    [t |-> "obj", timestamp |-> Some(JNum(100250000)), status_code |-> Some(JNum(200)),
     headers |-> Some([t |-> "obj", d |-> ("request-id" :> JStr(<<"req_1">>))]),
     body |-> None, body_raw |-> stream]

Record(request, response) ==
    [t |-> "obj", logged_at |-> Some(JNum(100300000)), request |-> request, response |-> response]

JsonLine(x) == [kind |-> "json", v |-> x]
TextLine(n) == [kind |-> "text", len |-> n]
BlankLine == [kind |-> "blank"]

\* lines of body_raw
Ev(name) == [k |-> "event", name |-> name]
Data(x) == [k |-> "data", payload |-> [p |-> "json", v |-> x]]
DataText(s) == [k |-> "data", payload |-> [p |-> "text", v |-> s]]
DataDone == [k |-> "data", payload |-> [p |-> "done"]]
DataEmpty == [k |-> "data", payload |-> [p |-> "empty"]]
Blank == [k |-> "blank"]
Other == [k |-> "other"]

DataObj(index, content_block, delta, usage) ==
    [t |-> "obj", index |-> index, content_block |-> content_block, delta |-> delta,
     usage |-> usage]

EmptyInput == [t |-> "obj", subagent_type |-> None, description |-> None]

ToolUse(name) ==
    [t |-> "obj", type |-> Some("tool_use"), name |-> Some(name), input |-> Some(EmptyInput),
     input_raw |-> None, input_parse_error |-> None]

TextBlock ==
    [t |-> "obj", type |-> Some("text"), name |-> None, input |-> None,
     input_raw |-> None, input_parse_error |-> None]

InputJsonDelta(fragment) ==
    [t |-> "obj", type |-> Some("input_json_delta"), partial_json |-> Some(JStr(fragment))]

TextDelta == [t |-> "obj", type |-> Some("text_delta"), partial_json |-> None]

Usage(input, output) ==
    [t |-> "obj", input_tokens |-> Some(JNum(input)), output_tokens |-> Some(JNum(output))]

BlockStart(i, content_block) ==
    <<Ev("content_block_start"), Data(DataObj(Some(i), Some(content_block), None, None)), Blank>>
BlockDelta(i, delta) ==
    <<Ev("content_block_delta"), Data(DataObj(Some(i), None, Some(delta), None)), Blank>>
BlockStop(i) ==
    <<Ev("content_block_stop"), Data(DataObj(Some(i), None, None, None)), Blank>>
MessageDelta(usage) ==
    <<Ev("message_delta"), Data(DataObj(None, None, None, usage)), Blank>>

RECURSIVE Deltas(_, _)
Deltas(i, fragments) ==
    IF fragments = <<>> THEN <<>>
    ELSE BlockDelta(i, InputJsonDelta(Head(fragments))) \o Deltas(i, Tail(fragments))

\* a tool-use block of the stream: start, one delta per fragment, stop
ToolBlock(i, name, fragments) ==
    BlockStart(i, ToolUse(name)) \o Deltas(i, fragments) \o BlockStop(i)

\* a response that streams a Task call with the given input fragments
TaskStream(fragments) ==
    ToolBlock(0, "Task", fragments) \o MessageDelta(Some(Usage(7, 3)))

\* a response with two Task calls, of which only the second declares a
\* subagent_type
TwoTaskStream ==
    ToolBlock(0, "Task", <<<<"{", "D", "}">>>>) \o ToolBlock(1, "Task", <<<<"{", "R", "}">>>>)

TextStream == BlockStart(0, TextBlock) \o BlockDelta(0, TextDelta) \o BlockStop(0)

ConversationPrompt == JStr(MainAgentMarker \o <<",", "a", "CLI">>)
ToolPrompt == JStr(<<"You", "are", "a", "code", "reviewer">>)

LongKey == JStr(<<"s", "k", "-", "a", "n", "t", "-", "0", "1", "2", "3", "4">>)
ShortKey == JStr(<<"s", "k", "-", "a", "n", "t", "-", "0", "1", "2">>)

ApiUrl == Some(JStr(<<"https", "://", "api", "/", "v1", "/", "messages", "?", "beta">>))

Headers(key) == Some([t |-> "obj", d |-> ("x-api-key" :> key)])
NoKeyHeaders == Some([t |-> "obj", d |-> ("content-type" :> JStr(<<"json">>))])

\* a conversation request with n messages
Turn(n, system, stream) ==
    JsonLine(Record(Some(Req(NoKeyHeaders, ApiUrl, Some(Body(n, system)))), Some(Resp(stream))))

\* line[:500], len(line) > 500  (line 42)
RawLineLimit == 500

\* the lines of the files of Spec: every shape of line
RecordLines ==
    { BlankLine,
      TextLine(3),
      TextLine(RawLineLimit),
      TextLine(RawLineLimit + 1),
      JsonLine(JArr(1)),
      JsonLine(Record(Some(JStr(<<"GET">>)), None)),
      JsonLine(Record(None, None)),
      JsonLine(Record(Some(Req(Headers(LongKey), ApiUrl, None)), None)),
      JsonLine(Record(Some(Req(Headers(ShortKey), None, None)), Some(Resp(None)))),
      JsonLine(Record(Some(Req(Headers(JNum(7)), ApiUrl, None)), None)),
      Turn(5, Some(ConversationPrompt), Some(JStr(TextStream))),
      Turn(6, Some(ConversationPrompt), Some(JStr(TaskStream(<<<<"{", "R">>, <<"}">>>>)))),
      Turn(1, Some(ToolPrompt), None),
      Turn(2, None, Some(JStr(<<Ev("content_block_start"), Blank>>))) }

\* the lines of the files of SpecFlow: the turns of a conversation
FlowLines ==
    { Turn(5, Some(ConversationPrompt), Some(JStr(TextStream))),
      Turn(6, Some(ConversationPrompt), Some(JStr(TaskStream(<<<<"{", "R">>, <<"}">>>>)))),
      Turn(1, Some(ToolPrompt), None),
      Turn(1, Some(ConversationPrompt), None),
      Turn(2, Some(ToolPrompt), None),
      Turn(60, Some(ConversationPrompt), None) }

\* the lines of the files of SpecDetect: the turns, an infrastructure
\* request whose response invokes Task, a turn whose response invokes Task
\* twice, and a malformed line
ConversationLines ==
    FlowLines
        \cup { Turn(1, Some(ToolPrompt), Some(JStr(TaskStream(<<<<"{", "B", "}">>>>)))),
               Turn(7, Some(ConversationPrompt), Some(JStr(TwoTaskStream))),
               TextLine(3) }


-----------------------------------------------------------------------------
(* parse_trace_file as a state machine: one action per iteration of the    *)
(* reading loop, then one per iteration of the detector's loop.            *)

\* the error entry numbered by its position in entries instead of its line
ErrorEntryByPosition(line, index) ==
    [index |-> Len(entries) + 1,
     error |-> JsonDecodeError,
     raw_line |-> [prefix |-> IF line.len > RawLineLimit THEN RawLineLimit ELSE line.len,
                   dots |-> line.len > RawLineLimit]]

\* lines 38-44
ErrorEntry(line, index) ==
    [index |-> index,
     error |-> JsonDecodeError,
     raw_line |-> [prefix |-> IF line.len > RawLineLimit THEN RawLineLimit ELSE line.len,
                   dots |-> line.len > RawLineLimit]]

\* the loop of lines 29-45 as a function, from line i on
RECURSIVE read_from(_, _, _)
read_from(f, i, es) ==
    IF i > Len(f) THEN [exc |-> "", entries |-> es]
    ELSE IF f[i].kind = "blank" THEN read_from(f, i + 1, es)
    ELSE IF f[i].kind = "text" THEN read_from(f, i + 1, Append(es, ErrorEntry(f[i], i)))
    ELSE LET parsed == _process_entry(f[i].v, i)
         IN  IF parsed.exc # "" THEN [exc |-> parsed.exc, entries |-> es]
             ELSE read_from(f, i + 1, Append(es, parsed.result))

\* lines 17-52 as a function: the entries returned, or the exception
parse_trace_file(f) ==
    LET read == read_from(f, 1, <<>>)
        detected == detect_subagent_conversations(read.entries)
    IN  IF read.exc # "" THEN [exc |-> read.exc, entries |-> <<>>]
        ELSE [exc |-> detected.d.exc, entries |-> detected.entries]

FileIdle ==
    /\ file = <<>> /\ line_num = 0 /\ entries = <<>> /\ det_i = 0
    /\ active_subagent = None /\ prev_msg_count = 0 /\ pre_detect = <<>>

StreamIdle == body_raw = <<>> /\ sse_i = 0 /\ sse = SseStart /\ summary = PyNone

CallIdle == record = PyNone /\ processed = PyNone /\ directory = PyNone /\ files = <<>>

ToolIdle == retry = PyNone /\ manager = PyNone /\ improve = PyNone

CanRead(max) == pc = "read" /\ Len(file) < max

Read(line) ==
    /\ file' = Append(file, line)
    /\ line_num' = line_num + 1
    /\ UNCHANGED <<det_i, active_subagent, prev_msg_count, pre_detect, streamVars, toolVars, callVars>>

\* lines 30-31
ReadBlank(lines, max) ==
    \E line \in lines :
        /\ CanRead(max)
        /\ line.kind = "blank"
        /\ Read(line)
        /\ UNCHANGED <<entries, pc>>

\* lines 33-35, when _process_entry returns
ReadRecord(lines, max) ==
    \E line \in lines :
        /\ CanRead(max)
        /\ line.kind = "json"
        /\ LET parsed == _process_entry(line.v, line_num + 1)
           IN  /\ parsed.exc = ""
               /\ entries' = Append(entries, parsed.result)
        /\ Read(line)
        /\ UNCHANGED pc

\* lines 33-34, when _process_entry raises: no handler, the call ends
ReadRaises(lines, max) ==
    \E line \in lines :
        /\ CanRead(max)
        /\ line.kind = "json"
        /\ _process_entry(line.v, line_num + 1).exc # ""
        /\ Read(line)
        /\ pc' = "raised"
        /\ UNCHANGED entries

\* lines 36-45
ReadMalformed(lines, max) ==
    \E line \in lines :
        /\ CanRead(max)
        /\ line.kind = "text"
        /\ entries' = Append(entries, ErrorEntry(line, line_num + 1))
        /\ Read(line)
        /\ UNCHANGED pc

\* end of file: lines 47-50 and 18-22
EndOfFile ==
    /\ pc = "read"
    /\ pc' = IF entries = <<>> THEN "returned" ELSE "detect"
    /\ det_i' = 1
    /\ active_subagent' = None
    /\ prev_msg_count' = 0
    /\ pre_detect' = entries
    /\ UNCHANGED <<file, line_num, entries, streamVars, toolVars, callVars>>

Detecting(branch) ==
    /\ pc = "detect"
    /\ det_i <= Len(entries)
    /\ DetectBranch(entries[det_i]) = branch

DetectorState == [active_subagent |-> active_subagent, prev_msg_count |-> prev_msg_count, exc |-> ""]

DetectApply ==
    LET r == detect_entry(DetectorState, entries[det_i])
    IN  /\ entries' = [entries EXCEPT ![det_i] = r.entry]
        /\ active_subagent' = r.d.active_subagent
        /\ prev_msg_count' = r.d.prev_msg_count
        /\ det_i' = det_i + 1
        /\ UNCHANGED <<file, line_num, pre_detect, pc, streamVars, toolVars, callVars>>

\* lines 26-31
DetectTask == Detecting("task") /\ DetectApply

\* lines 34-35
DetectInfrastructure == Detecting("infrastructure") /\ DetectApply

\* lines 38-54
DetectConversation == Detecting("conversation") /\ DetectApply

\* an exception leaves the detector and parse_trace_file
DetectRaises ==
    /\ Detecting("raise")
    /\ pc' = "raised"
    /\ UNCHANGED <<fileVars, streamVars, toolVars, callVars>>

\* line 52
Return ==
    /\ pc = "detect"
    /\ det_i > Len(entries)
    /\ pc' = "returned"
    /\ UNCHANGED <<fileVars, streamVars, toolVars, callVars>>

Init == pc = "read" /\ FileIdle /\ StreamIdle /\ CallIdle /\ ToolIdle

Next ==
    \/ ReadBlank(RecordLines, MaxLines)
    \/ ReadRecord(RecordLines, MaxLines)
    \/ ReadRaises(RecordLines, MaxLines)
    \/ ReadMalformed(RecordLines, MaxLines)
    \/ EndOfFile
    \/ DetectTask
    \/ DetectInfrastructure
    \/ DetectConversation
    \/ DetectRaises
    \/ Return

Spec == Init /\ [][Next]_vars

NextDetect ==
    \/ ReadRecord(ConversationLines, MaxConversation)
    \/ ReadMalformed(ConversationLines, MaxConversation)
    \/ EndOfFile
    \/ DetectTask
    \/ DetectInfrastructure
    \/ DetectConversation
    \/ Return

SpecDetect == Init /\ [][NextDetect]_vars

NextFlow ==
    \/ ReadRecord(FlowLines, MaxFlow)
    \/ EndOfFile
    \/ DetectTask
    \/ DetectInfrastructure
    \/ DetectConversation
    \/ Return

SpecFlow == Init /\ [][NextFlow]_vars


-----------------------------------------------------------------------------
(* The response section of _process_entry on one stream, as a state        *)
(* machine: one action per iteration of the loop of                        *)
(* _parse_sse_events_detailed, then the token usage scan.                  *)

MaxMembers == 2
MaxDigits == 2
MaxEvents == 3

\* the sequences over S of length at most n
RECURSIVE SeqsUpTo(_, _)
SeqsUpTo(S, n) ==
    IF n = 0 THEN {<<>>}
    ELSE LET shorter == SeqsUpTo(S, n - 1)
         IN  shorter \cup {Append(q, x) : q \in {r \in shorter : Len(r) = n - 1}, x \in S}

\* the text of the object with the given members
RECURSIVE MembersText(_)
MembersText(ms) ==
    IF ms = <<>> THEN <<>>
    ELSE IF Len(ms) = 1 THEN <<ms[1]>>
    ELSE <<ms[1], ",">> \o MembersText(Tail(ms))

ObjectText(ms) == <<"{">> \o MembersText(ms) \o <<"}">>

ValidTexts ==
    {ObjectText(ms) : ms \in SeqsUpTo(Members, MaxMembers)}
        \cup (SeqsUpTo({"1"}, MaxDigits) \ {<<>>})

\* the valid texts and their truncations
InputTexts == UNION {{SubSeq(text, 1, n) : n \in 1..Len(text)} : text \in ValidTexts}

\* every way of cutting text into consecutive non-empty fragments
RECURSIVE Cuts(_)
Cuts(text) ==
    IF text = <<>> THEN {<<>>}
    ELSE UNION {{<<SubSeq(text, 1, n)>> \o rest : rest \in Cuts(SubSeq(text, n + 1, Len(text)))}
                    : n \in 1..Len(text)}

\* one tool-use block, after a text block and before the message_delta
BlockStreams ==
    {TextStream \o ToolBlock(1, "Task", cut) \o MessageDelta(Some(Usage(7, 3)))
        : cut \in UNION {Cuts(text) : text \in InputTexts}}

\* events that may or may not carry a usage object
UsageEvents ==
    { MessageDelta(Some(Usage(7, 3))),
      MessageDelta(Some(Usage(9, 4))),
      MessageDelta(None),
      <<Ev("message_start"), Data(DataObj(None, None, None, Some(Usage(1, 1)))), Blank>>,
      <<Ev("message_stop"), Data(DataObj(None, None, None, Some(Usage(8, 2)))), Blank>>,
      <<Ev("message_stop"), Blank>>,
      <<Ev("message_delta"), Blank>>,
      <<Ev("content_block_stop"), Data(JArr(1)), Blank>>,
      <<Ev("content_block_start"), Blank>>,
      <<Ev("ping"), DataText(<<"alive">>), Blank>> }

UsageStreams == {Concat(q) : q \in SeqsUpTo(UsageEvents, MaxEvents)} \ {<<>>}

\* data lines after a blank line and before any event line, the [DONE]
\* sentinel, alone and inside an open tool-use block, and a line that is
\* neither an event nor a data line
DelimiterStreams ==
    { <<Ev("message_stop"), Blank, Data(DataObj(None, None, None, Some(Usage(5, 5)))), Blank>>,
      <<Data(DataObj(None, None, None, Some(Usage(5, 5)))), Blank,
        Ev("ping"), DataText(<<"alive">>), Blank>>,
      <<Ev("ping"), Other, DataText(<<"alive">>), Blank>>,
      <<DataDone, Ev("message_stop"), DataDone, Blank>>,
      <<Ev("message_delta"), Data(DataObj(None, None, None, Some(Usage(5, 5)))), DataDone, Blank>>,
      BlockStart(1, ToolUse("Task")) \o Deltas(1, <<<<"{", "R">>>>)
          \o <<Ev("content_block_delta"), DataDone, Blank>>
          \o Deltas(1, <<<<"}">>>>) \o BlockStop(1) }

\* a tool-use block with no fragment or an empty one, a block followed by
\* a delta and a stop of the same index, and a block whose stop never comes
EdgeStreams ==
    {ToolBlock(1, "Task", cut) : cut \in {<<>>, <<<<>>>>}}
        \cup {ToolBlock(1, "Task", cut) \o BlockDelta(1, InputJsonDelta(<<"}">>)) \o BlockStop(1) :
                cut \in Cuts(<<"{", "R", "}">>) \cup Cuts(<<"{", "R">>)}
        \cup {BlockStart(1, ToolUse("Task")) \o Deltas(1, cut) :
                cut \in Cuts(<<"{", "R", "}">>) \cup Cuts(<<"{", "R">>)}

\* every way of merging two sequences, each keeping its order
RECURSIVE Merges(_, _)
Merges(a, b) ==
    IF a = <<>> THEN {b}
    ELSE IF b = <<>> THEN {a}
    ELSE {<<Head(a)>> \o rest : rest \in Merges(Tail(a), b)}
            \cup {<<Head(b)>> \o rest : rest \in Merges(a, Tail(b))}

\* the delta events of block i, one per fragment
DeltaEvents(i, fragments) ==
    [n \in 1..Len(fragments) |-> BlockDelta(i, InputJsonDelta(fragments[n]))]

\* two tool-use blocks open at the same time, their deltas interleaved,
\* closed in either order
OpenTwo == BlockStart(0, ToolUse("Task")) \o BlockStart(1, ToolUse("Read"))
CloseTwo == {BlockStop(0) \o BlockStop(1), BlockStop(1) \o BlockStop(0)}

\* deltas that are no input_json_delta or whose index has no open block
\* among the deltas of the two open blocks
NoisyInterleaved ==
    OpenTwo
        \o BlockDelta(0, InputJsonDelta(<<"{">>)) \o BlockDelta(0, TextDelta)
        \o BlockDelta(1, InputJsonDelta(<<"{">>)) \o BlockDelta(2, InputJsonDelta(<<"B">>))
        \o BlockDelta(0, InputJsonDelta(<<"R">>)) \o BlockDelta(1, TextDelta)
        \o BlockDelta(1, InputJsonDelta(<<"D", "}">>)) \o BlockDelta(0, InputJsonDelta(<<"}">>))
        \o BlockStop(2) \o BlockStop(1) \o BlockStop(0)

InterleavedStreams ==
    {OpenTwo \o Concat(merged) \o stops :
        merged \in UNION {Merges(DeltaEvents(0, first), DeltaEvents(1, second)) :
                            first \in Cuts(<<"{", "R", "}">>),
                            second \in Cuts(<<"{", "D", "}">>) \cup Cuts(<<"{", "B">>)},
        stops \in CloseTwo}
        \cup {NoisyInterleaved}

StreamInputs ==
    BlockStreams \cup UsageStreams \cup EdgeStreams \cup DelimiterStreams \cup InterleavedStreams

InitStream ==
    /\ pc = "sse"
    /\ FileIdle
    /\ CallIdle
    /\ ToolIdle
    /\ body_raw \in StreamInputs
    /\ sse_i = 1
    /\ sse = SseStart
    /\ summary = PyNone

AtLine(k) == pc = "sse" /\ sse_i <= Len(body_raw) /\ body_raw[sse_i].k = k

SseApply ==
    /\ sse' = sse_line(sse, body_raw[sse_i])
    /\ sse_i' = sse_i + 1
    /\ UNCHANGED <<body_raw, summary, fileVars, callVars, toolVars>>

\* lines 261-265
SseEvent == AtLine("event") /\ SseApply /\ UNCHANGED pc

\* lines 267-336, when no exception leaves the loop
SseData ==
    /\ AtLine("data")
    /\ sse_line(sse, body_raw[sse_i]).exc = ""
    /\ SseApply
    /\ UNCHANGED pc

\* lines 267-336, when an exception that is no JSONDecodeError is raised
SseDataRaises ==
    /\ AtLine("data")
    /\ sse_line(sse, body_raw[sse_i]).exc # ""
    /\ SseApply
    /\ pc' = "raised"

\* a line that is neither an event nor a data line
SseSkip ==
    /\ pc = "sse" /\ sse_i <= Len(body_raw) /\ body_raw[sse_i].k \notin {"event", "data"}
    /\ SseApply
    /\ UNCHANGED pc

\* lines 164-171, after the stream was parsed
UsageScan ==
    /\ pc = "sse" /\ sse_i > Len(body_raw)
    /\ LET usage == ExtractUsage(sse.events, PyNone)
       IN  /\ pc' = IF usage.exc = "" THEN "processed" ELSE "raised"
           /\ summary' = [tokens_used |-> usage.tokens_used]
    /\ UNCHANGED <<body_raw, sse_i, sse, fileVars, callVars, toolVars>>

NextStream == SseEvent \/ SseData \/ SseDataRaises \/ SseSkip \/ UsageScan

SpecStream == InitStream /\ [][NextStream]_vars

-----------------------------------------------------------------------------
(* parse_trace_file on responses that stream one Task block: the reading   *)
(* loop and the detector's loop as in Spec, on the lines below.            *)

MaxReassembly == 3

\* the fragments of the streamed Task inputs: a text that declares a
\* subagent_type in every cut, a truncated one, other agents, an empty
\* subagent_type, no subagent_type, a number, and no fragment
ReassemblyFragments ==
    Cuts(<<"{", "R", "}">>)
        \cup {<<<<"{", "R">>>>, <<<<"{", "B", "}">>>>, <<<<"{", "E", "}">>>>,
              <<<<"{", "D", "}">>>>, <<<<"1">>>>, <<>>}

\* the lines of the files of SpecReassembly: conversation turns whose
\* response streams one Task block, closed by its stop or cut off before
\* it, and a turn without tool use
ReassemblyLines ==
    {Turn(6, Some(ConversationPrompt), Some(JStr(ToolBlock(0, "Task", fragments))))
        : fragments \in ReassemblyFragments}
        \cup {Turn(6, Some(ConversationPrompt),
                   Some(JStr(BlockStart(0, ToolUse("Task")) \o Deltas(0, fragments))))
                : fragments \in {<<<<"{", "R", "}">>>>, <<<<"{">>, <<"R">>, <<"}">>>>,
                                 <<<<"{", "B", "}">>>>}}
        \cup {Turn(7, Some(ConversationPrompt), Some(JStr(TextStream)))}

NextReassembly ==
    \/ ReadRecord(ReassemblyLines, MaxReassembly)
    \/ EndOfFile
    \/ DetectTask
    \/ DetectConversation
    \/ Return

SpecReassembly == Init /\ [][NextReassembly]_vars


-----------------------------------------------------------------------------
(* _process_entry as a function of one decoded record: the call is made on *)
(* a record drawn from the inputs below and returns or raises.             *)

MaxUrl == 6

\* records with every subset of the optional keys absent
FieldRequests ==
    {[t |-> "obj", timestamp |-> ts, method |-> me, url |-> u, headers |-> h, body |-> b] :
        ts \in {None, Some(JNum(100000000))},
        me \in {None, Some(JStr(<<"POST">>))},
        u \in {None, ApiUrl},
        h \in {None, Headers(LongKey)},
        b \in {None, Some(Body(5, Some(ConversationPrompt)))}}

FieldResponses ==
    {[t |-> "obj", timestamp |-> ts, status_code |-> sc, headers |-> h, body |-> b,
      body_raw |-> raw] :
        ts \in {None, Some(JNum(100250000))},
        sc \in {None, Some(JNum(500))},
        h \in {None, Some([t |-> "obj",
                           d |-> ("request-id" :> JStr(<<"req_1">>))
                                 @@ ("anthropic-ratelimit-requests-remaining" :> JStr(<<"9">>))])},
        b \in {None, Some(JStr(<<"overloaded">>))},
        raw \in {None, Some(JStr(TaskStream(<<<<"{", "R", "}">>>>)))}}

FieldRecords ==
    {Record(rq, rs) : rq \in {None} \cup {Some(r) : r \in FieldRequests},
                      rs \in {None} \cup {Some(r) : r \in FieldResponses}}

\* timestamps in microseconds: 100.0, 100.25, 100.2506 and 100.0004 seconds
Timestamps == {100000000, 100250000, 100250600, 100000400}

TimedRecords ==
    {Record(Some([t |-> "obj", timestamp |-> a, method |-> None, url |-> None,
                  headers |-> None, body |-> None]),
            Some([t |-> "obj", timestamp |-> b, status_code |-> None, headers |-> None,
                  body |-> None, body_raw |-> None])) :
        a \in {None} \cup {Some(JNum(ts)) : ts \in Timestamps},
        b \in {None} \cup {Some(JNum(ts)) : ts \in Timestamps}}

\* URLs: a token is the scheme separator, a slash, a question mark or a name
UrlTokens == {"://", "/", "?", "a"}

Urls == SeqsUpTo(UrlTokens, MaxUrl)

UrlRecords == {Record(Some(Req(NoKeyHeaders, Some(JStr(u)), None)), None) : u \in Urls}

\* records of another shape than the documented one
MalformedRecords ==
    { JArr(1),
      Record(Some(JStr(<<"GET">>)), None),
      Record(Some(Req(Headers(JNum(7)), ApiUrl, None)), None) }

EntryInputs == FieldRecords \cup TimedRecords \cup UrlRecords \cup MalformedRecords

InitEntry ==
    /\ pc = "entry"
    /\ FileIdle
    /\ StreamIdle
    /\ ToolIdle
    /\ record \in EntryInputs
    /\ processed = PyNone
    /\ directory = PyNone
    /\ files = <<>>

\* lines 55-187, when the call returns
ProcessEntry ==
    /\ pc = "entry"
    /\ _process_entry(record, 1).exc = ""
    /\ processed' = _process_entry(record, 1).result
    /\ pc' = "processed"
    /\ UNCHANGED <<fileVars, streamVars, toolVars, record, directory, files>>

\* lines 55-187, when an exception leaves the call
ProcessEntryRaises ==
    /\ pc = "entry"
    /\ _process_entry(record, 1).exc # ""
    /\ pc' = "raised"
    /\ UNCHANGED <<fileVars, streamVars, toolVars, callVars>>

NextEntry == ProcessEntry \/ ProcessEntryRaises

SpecEntry == InitEntry /\ [][NextEntry]_vars


-----------------------------------------------------------------------------
(* list_trace_files.  A directory is [exists, files]: files maps the name  *)
(* of each file to its suffix, size in bytes and modification time (whole  *)
(* seconds).  A name is a number: its rank in the order of the paths.      *)

MaxNames == 3
MaxTime == 2

\* lines 369-376: the size in the first unit below 1024, one decimal
RECURSIVE FormatSize(_, _)
FormatSize(size, unit) ==
    IF size < 1024 ^ (unit + 1) \/ unit = 4
    THEN [unit |-> <<"B", "KB", "MB", "GB", "TB">>[unit + 1],
          tenths |-> (20 * size + 1024 ^ unit) \div (2 * 1024 ^ unit)]
    ELSE FormatSize(size, unit + 1)

_format_file_size(size) == FormatSize(size, 0)

\* sorted(paths, reverse=True)  (line 355), on the names of the paths
RECURSIVE SortedReverse(_)
SortedReverse(names) ==
    IF names = {} THEN <<>>
    ELSE <<SetMax(names)>> \o SortedReverse(names \ {SetMax(names)})

\* lines 341-366
list_trace_files(dir) ==
    IF ~dir.exists THEN <<>>
    ELSE LET paths == SortedReverse({n \in DOMAIN dir.files : dir.files[n].suffix = "jsonl"})
         IN  [i \in 1..Len(paths) |->
                [name |-> paths[i],
                 size |-> _format_file_size(dir.files[paths[i]].size),
                 modified |-> [t |-> "ymdhms", of |-> dir.files[paths[i]].mtime],
                 path |-> <<"dir", paths[i]>>]]

FileStats ==
    [suffix : {"jsonl", "txt"}, size : {100, 1536}, mtime : 1..MaxTime]

Directories ==
    {[exists |-> FALSE, files |-> <<>>]}
        \cup {[exists |-> TRUE, files |-> f] :
                f \in UNION {[names -> FileStats] : names \in SUBSET (1..MaxNames)}}

InitList ==
    /\ pc = "list"
    /\ FileIdle
    /\ StreamIdle
    /\ ToolIdle
    /\ record = PyNone
    /\ processed = PyNone
    /\ directory \in Directories
    /\ files = <<>>

\* lines 355-366
ListFiles ==
    /\ pc = "list"
    /\ directory.exists
    /\ files' = list_trace_files(directory)
    /\ pc' = "listed"
    /\ UNCHANGED <<fileVars, streamVars, toolVars, record, processed, directory>>

\* lines 352-353
ListMissing ==
    /\ pc = "list"
    /\ ~directory.exists
    /\ files' = list_trace_files(directory)
    /\ pc' = "listed"
    /\ UNCHANGED <<fileVars, streamVars, toolVars, record, processed, directory>>

NextList == ListFiles \/ ListMissing

SpecList == InitList /\ [][NextList]_vars


-----------------------------------------------------------------------------
(* Properties of parse_trace_file (Spec)                                   *)

IsNormalEntry(e) == Has(e, "raw_entry")
IsErrorEntry(e) == Has(e, "error") /\ Has(e, "raw_line")

\* the numbers of the non-blank lines of f, from line i on
RECURSIVE NonBlankFrom(_, _)
NonBlankFrom(f, i) ==
    IF i > Len(f) THEN <<>>
    ELSE (IF f[i].kind = "blank" THEN <<>> ELSE <<i>>) \o NonBlankFrom(f, i + 1)

\* a line that holds a record of the documented shape
WellFormedRecord(line) ==
    /\ line.kind = "json"
    /\ IsDict(line.v)
    /\ line.v.request # None => IsDict(Get(line.v.request))
    /\ line.v.response # None => IsDict(Get(line.v.response))

\* C1: parse_trace_file never raises, whatever the lines hold, and returns
\* one entry per non-blank line: a normal entry for a well-formed record,
\* an error entry for any other line.
C1_OneEntryPerLineNeverRaises ==
    /\ pc # "raised"
    /\ pc = "returned" =>
        LET nb == NonBlankFrom(file, 1)
        IN  /\ Len(entries) = Len(nb)
            /\ \A k \in 1..Len(nb) :
                IF WellFormedRecord(file[nb[k]])
                THEN IsNormalEntry(entries[k])
                ELSE IsErrorEntry(entries[k])

\* C2: in the returned list the index of the k-th entry is the 1-based
\* number of the k-th non-blank line of the file (blank lines are counted,
\* error entries carry their own line's number), so the index values are
\* strictly increasing.
C2_IndexIsLineNumber ==
    pc = "returned" =>
        LET nb == NonBlankFrom(file, 1)
        IN  /\ Len(entries) = Len(nb)
            /\ \A k \in 1..Len(entries) :
                /\ entries[k].index = nb[k]
                /\ k > 1 => entries[k - 1].index < entries[k].index

\* a returned file: a blank line, then a malformed line, then a record
C2_Witness ==
    /\ pc = "returned"
    /\ Len(file) = 3
    /\ file[1].kind = "blank" /\ file[2].kind = "text" /\ file[3].kind = "json"
    /\ Len(entries) = 2
    /\ IsErrorEntry(entries[1]) /\ entries[1].index = 2
    /\ IsNormalEntry(entries[2]) /\ entries[2].index = 3

\* the x-api-key header of the record an entry was built from, if it is a
\* string of more than 10 characters
SecretOf(e) ==
    LET request == e.raw_entry.request
    IN  IF request # None /\ IsDict(Get(request)) /\ Get(request).headers # None
           /\ IsDict(Get(Get(request).headers))
           /\ "x-api-key" \in DOMAIN Get(Get(request).headers).d
           /\ IsStr(Get(Get(request).headers).d["x-api-key"])
           /\ Len(Get(Get(request).headers).d["x-api-key"].v) > 10
        THEN Some(Get(Get(request).headers).d["x-api-key"])
        ELSE None

\* the header values an entry holds, in request.headers and in raw_entry
HeaderValues(e) ==
    {e.request.headers.d[key] : key \in DOMAIN e.request.headers.d}
        \cup (IF e.raw_entry.request # None /\ Get(e.raw_entry.request).headers # None
              THEN LET headers == Get(Get(e.raw_entry.request).headers)
                   IN  {headers.d[key] : key \in DOMAIN headers.d}
              ELSE {})

\* C4: an entry built from a record whose x-api-key is longer than 10
\* characters holds the full key in no field; the key shows only as "..."
\* and its last 4 characters, in request.api_key_suffix.
C4_FullKeyNeverStored ==
    \A k \in 1..Len(entries) :
        LET e == entries[k]
        IN  (IsNormalEntry(e) /\ SecretOf(e) # None) =>
                /\ Get(SecretOf(e)) \notin HeaderValues(e)
                /\ e.request.api_key_suffix =
                       JStr(<<"...">> \o SubSeq(Get(SecretOf(e)).v, Len(Get(SecretOf(e)).v) - 3,
                                               Len(Get(SecretOf(e)).v)))

-----------------------------------------------------------------------------
(* Properties of the stream reconstruction (SpecStream)                    *)

\* the fragments of the input_json_delta lines of a stream, in order
RECURSIVE DeltaFragments(_)
DeltaFragments(raw) ==
    IF raw = <<>> THEN <<>>
    ELSE LET line == Head(raw)
             is == /\ line.k = "data"
                   /\ line.payload.p = "json"
                   /\ IsDict(line.payload.v)
                   /\ line.payload.v.delta # None
                   /\ Get(line.payload.v.delta).type = Some("input_json_delta")
         IN  (IF is THEN <<Get(Get(line.payload.v.delta).partial_json).v>> ELSE <<>>)
                 \o DeltaFragments(Tail(raw))

\* the stream holds one tool-use block: start, its fragments, stop
IsToolBlockStream(raw) ==
    raw = TextStream \o ToolBlock(1, "Task", DeltaFragments(raw)) \o MessageDelta(Some(Usage(7, 3)))

\* the positions of the content_block_start events of tool-use block i
StartEvents(events, i) ==
    {k \in 1..Len(events) :
        /\ events[k].type = "content_block_start"
        /\ IsDict(events[k].data)
        /\ events[k].data.index = Some(i)
        /\ events[k].data.content_block # None
        /\ Get(events[k].data.content_block).type = Some("tool_use")}

\* C5: for a tool-use block whose fragments concatenate to a valid JSON
\* text J, the events hold exactly one content_block_start event of the
\* block and its content_block.input is the decoded J, however J was cut
\* into fragments.
C5_ReassemblyIgnoresFragmentation ==
    (/\ pc = "processed"
     /\ IsToolBlockStream(body_raw)
     /\ json_loads(Concat(DeltaFragments(body_raw))).ok) =>
        LET starts == StartEvents(sse.events, 1)
        IN  /\ Cardinality(starts) = 1
            /\ \A k \in starts :
                Get(sse.events[k].data.content_block).input
                    = Some(json_loads(Concat(DeltaFragments(body_raw))).v)

\* the text {R,D} delivered in five single-token fragments
C5_Witness ==
    /\ pc = "processed"
    /\ IsToolBlockStream(body_raw)
    /\ DeltaFragments(body_raw) = <<<<"{">>, <<"R">>, <<",">>, <<"D">>, <<"}">>>>
    /\ \E k \in StartEvents(sse.events, 1) :
        Get(sse.events[k].data.content_block).input
            = Some([t |-> "obj", subagent_type |-> Some("reviewer"), description |-> Some("x")])

\* an event whose data is an object with a usage key
CarriesUsage(event) == IsDict(event.data) /\ event.data.usage # None

\* the counts of the last event of the given positions, None if there is none
UsageOfLast(events, at) ==
    IF at = {} THEN PyNone
    ELSE LET usage == Get(events[SetMax(at)].data.usage)
         IN  [t |-> "obj", input |-> DGet(usage.input_tokens), output |-> DGet(usage.output_tokens)]

-----------------------------------------------------------------------------
(* Properties of the detector (SpecDetect)                                 *)

InsertAt(f, p, line) == SubSeq(f, 1, p) \o <<line>> \o SubSeq(f, p + 1, Len(f))

SameApartFromIndex(a, b) ==
    /\ DOMAIN a = DOMAIN b
    /\ \A key \in (DOMAIN a) \ {"index"} : a[key] = b[key]

\* C3: a malformed line inserted between two record lines adds exactly one
\* error entry, numbered as the inserted line, and leaves the entries of
\* the record lines as they are without it, every field but index,
\* subagent_info included.
C3_MalformedLineLeavesOthersUnaffected ==
    pc = "returned" =>
        \A p \in 1..(Len(file) - 1) :
            (file[p].kind = "json" /\ file[p + 1].kind = "json") =>
                LET with == parse_trace_file(InsertAt(file, p, TextLine(3)))
                IN  /\ with.exc = ""
                    /\ Len(with.entries) = Len(entries) + 1
                    /\ IsErrorEntry(with.entries[p + 1])
                    /\ with.entries[p + 1].index = p + 1
                    /\ \A k \in 1..Len(entries) :
                        SameApartFromIndex(entries[k],
                                           with.entries[IF k <= p THEN k ELSE k + 1])

IsTagged(e, agent) ==
    /\ Has(e, "subagent_info")
    /\ e.subagent_info.is_subagent
    /\ e.subagent_info.agent_type = Some(agent)

IsUntagged(e) == Has(e, "subagent_info") => ~e.subagent_info.is_subagent

InvokesTask(e) == TaskTruthy(_get_task_subagent_type(e).agent)

\* the entries are [main (5 messages), Task invocation of "reviewer",
\* request with 1 message, request with 2 messages, main (60 messages)]
TaggingExample ==
    /\ pc = "returned"
    /\ Len(entries) = 5
    /\ \A k \in 1..5 : IsNormalEntry(entries[k])
    /\ _get_task_subagent_type(entries[2]).agent = Some("reviewer")
    /\ \A k \in {1, 3, 4, 5} : ~InvokesTask(entries[k])
    /\ _get_message_count(entries[1]).n = 5
    /\ _get_message_count(entries[3]).n = 1
    /\ _get_message_count(entries[4]).n = 2
    /\ _get_message_count(entries[5]).n = 60

IsConversationEntry(e) == ~InvokesTask(e) /\ ~_is_infrastructure_request(e).is

\* the message count the detector compares entry k with: that of the
\* nearest earlier entry that is no skipped infrastructure request
PrevCount(es, k) ==
    LET before == {m \in 1..(k - 1) : InvokesTask(es[m]) \/ IsConversationEntry(es[m])}
    IN  IF before = {} THEN 0 ELSE _get_message_count(es[SetMax(before)]).n

JumpsAt(es, k) ==
    /\ IsConversationEntry(es[k])
    /\ PrevCount(es, k) > 0
    /\ _get_message_count(es[k]).n > PrevCount(es, k) + 50

C7_InfrastructureKeepsDetectorState ==
    [][(/\ pc = "detect"
        /\ det_i <= Len(entries)
        /\ _is_infrastructure_request(entries[det_i]).is) =>
            /\ active_subagent' = active_subagent
            /\ prev_msg_count' = prev_msg_count
            /\ entries' = entries]_vars

\* C9: the detector adds, removes and reorders no entry and changes no
\* field of an entry other than subagent_info.
C9_DetectorChangesOnlySubagentInfo ==
    pc \in {"detect", "returned"} =>
        /\ Len(entries) = Len(pre_detect)
        /\ \A k \in 1..Len(entries) :
            /\ (DOMAIN pre_detect[k]) \subseteq (DOMAIN entries[k])
            /\ (DOMAIN entries[k]) \subseteq (DOMAIN pre_detect[k]) \cup {"subagent_info"}
            /\ \A key \in (DOMAIN pre_detect[k]) \ {"subagent_info"} :
                entries[k][key] = pre_detect[k][key]

\* the detector has tagged a normal entry and an error entry
C9_Witness ==
    /\ pc = "returned"
    /\ \E k \in 1..Len(entries) :
        IsNormalEntry(entries[k]) /\ entries[k].subagent_info # pre_detect[k].subagent_info
    /\ \E k \in 1..Len(entries) :
        IsErrorEntry(entries[k]) /\ IsTagged(entries[k], "reviewer")

\* C10: a second run of the detector on the entries the first run annotated
\* leaves every entry's subagent_info as the first run left it.
C10_DetectorIdempotent ==
    pc = "returned" =>
        LET again == detect_subagent_conversations(entries)
        IN  /\ again.d.exc = ""
            /\ Len(again.entries) = Len(entries)
            /\ \A k \in 1..Len(entries) :
                Has(entries[k], "subagent_info") =>
                    again.entries[k].subagent_info = entries[k].subagent_info
            /\ again.entries = entries

\* a run that tagged an entry and returned to main before a later entry
C10_Witness ==
    /\ pc = "returned"
    /\ \E j \in 1..Len(entries) : \E k \in (j + 1)..Len(entries) :
        /\ IsTagged(entries[j], "reviewer")
        /\ IsNormalEntry(entries[k]) /\ ~InvokesTask(entries[k])
        /\ IsConversationEntry(entries[k])
        /\ IsUntagged(entries[k])

-----------------------------------------------------------------------------
(* Properties of malformed stream content (SpecStream)                     *)

\* C11: malformed stream content never makes parsing raise: for every
\* body_raw the stream reconstruction and the token usage extraction end
\* without an exception, and so does the Task detection on the events they
\* leave, also for an event without data line, with the [DONE] sentinel,
\* with non-JSON text, or with JSON data that is no object.
C11_MalformedStreamNeverRaises ==
    /\ pc # "raised"
    /\ pc = "processed" => TaskScan(sse.events).exc = ""

-----------------------------------------------------------------------------
(* Properties of _process_entry (SpecEntry)                                *)

\* a record of the documented shape: the request and the response are
\* objects, the headers are objects and an x-api-key is a string
IsDocumentedRecord(rec) ==
    /\ IsDict(rec)
    /\ rec.request # None =>
        /\ IsDict(Get(rec.request))
        /\ Get(rec.request).headers # None =>
            /\ IsDict(Get(Get(rec.request).headers))
            /\ \A key \in DOMAIN Get(Get(rec.request).headers).d :
                IsStr(Get(Get(rec.request).headers).d[key])
    /\ rec.response # None => IsDict(Get(rec.response))

\* key is absent from the section (request or response) of a record, or
\* the section itself is
Absent(section, key) == section = None \/ Get(section)[key] = None

EmptyHeaders == [t |-> "obj", d |-> EmptyDict]

\* every output field whose source key is absent holds its default, where
\* method and url are the defaults of request.method and request.url and
\* path that of summary.url_path in a request that is present
FieldDefaults(rec, out, method, url, path) ==
    LET rq == rec.request
        rs == rec.response
    IN  /\ Absent(rq, "timestamp") =>
            /\ out.request.timestamp = PyNone
            /\ out.request.timestamp_human = PyNone
            /\ out.summary.timestamp = PyNone
        /\ Absent(rq, "method") =>
            /\ out.request.method = (IF rq = None THEN PyNone ELSE method)
            /\ out.summary.method = (IF rq = None THEN PyNone ELSE method)
        /\ Absent(rq, "url") =>
            /\ out.request.url = (IF rq = None THEN PyNone ELSE url)
            /\ out.request.query_params = PyNone
            /\ out.summary.url_path = (IF rq = None THEN PyNone ELSE path)
        /\ Absent(rq, "headers") =>
            /\ out.request.headers = EmptyHeaders
            /\ out.request.api_key_suffix = PyNone
        /\ Absent(rq, "body") =>
            /\ out.request.body = PyNone
            /\ out.summary.model = PyNone
        /\ Absent(rs, "timestamp") =>
            /\ out.response.timestamp = PyNone
            /\ out.response.timestamp_human = PyNone
            /\ out.response.duration_ms = PyNone
            /\ out.summary.duration = PyNone
        /\ Absent(rs, "status_code") =>
            /\ out.response.status_code = PyNone
            /\ out.summary.status = PyNone
            /\ out.summary.error = PyNone
        /\ Absent(rs, "headers") =>
            /\ out.response.headers = EmptyHeaders
            /\ out.response.request_id = PyNone
            /\ out.response.rate_limits = EmptyDict
        /\ Absent(rs, "body") => out.response.body = PyNone
        /\ Absent(rs, "body_raw") =>
            /\ out.response.body_raw = PyNone
            /\ out.response.parsed_events = <<>>
            /\ out.summary.tokens_used = PyNone

TimestampOf(section) == Get(Get(section).timestamp).v

-----------------------------------------------------------------------------
(* Properties of the error entries (Spec)                                  *)

\* the number of characters of a raw_line: its prefix of the line, and the
\* three dots if they were appended
RawLineLength(raw_line) == raw_line.prefix + (IF raw_line.dots THEN 3 ELSE 0)

\* C14: the raw_line of the error entry of a line that fails JSON decoding
\* is a prefix of that line (nothing is appended to it) and holds at most
\* 500 characters, for a line shorter than, equal to or longer than 500
\* characters.
C14_RawLineIsPrefixOfAtMost500 ==
    \A k \in 1..Len(entries) :
        IsErrorEntry(entries[k]) =>
            /\ ~entries[k].raw_line.dots
            /\ entries[k].raw_line.prefix <= file[entries[k].index].len
            /\ RawLineLength(entries[k].raw_line) <= 500

\* the position of the first token tok of s, 0 if there is none
FirstAt(s, tok) ==
    LET at == {i \in 1..Len(s) : s[i] = tok}
    IN  IF at = {} THEN 0 ELSE CHOOSE x \in at : \A y \in at : x <= y

\* the paths a URL with a scheme separator may be given: what follows the
\* first "://" without its query string and without the host before the
\* first slash; a URL with no path after the host has the empty path or "/"
PathsOf(u) ==
    LET rest == SubSeq(u, FirstAt(u, "://") + 1, Len(u))
        noquery == IF FirstAt(rest, "?") = 0 THEN rest
                   ELSE SubSeq(rest, 1, FirstAt(rest, "?") - 1)
    IN  IF FirstAt(noquery, "/") = 0 THEN {<<>>, <<"/">>}
        ELSE {SubSeq(noquery, FirstAt(noquery, "/"), Len(noquery))}

\* C15: summary.url_path of a URL that contains "://" is the "/"-rooted
\* path with the scheme, the host and the query string removed, also when
\* the URL has no path after the host or holds "://" again in its query
\* string; of a URL without "://" it is the URL unchanged.
C15_UrlPathStripsSchemeHostQuery ==
    (/\ pc = "processed"
     /\ IsDocumentedRecord(record)
     /\ ~Absent(record.request, "url")) =>
        LET u == Get(Get(record.request).url).v
            path == processed.summary.url_path
        IN  IF "://" \in Range(u)
            THEN path.t = "str" /\ path.v \in PathsOf(u)
            ELSE path = JStr(u)

-----------------------------------------------------------------------------
(* Properties of list_trace_files (SpecList)                               *)

\* C16: list_trace_files returns the *.jsonl files of the directory, newest
\* first: of any two listed files the one modified later comes earlier in
\* the list, whatever the names are.  A directory that does not exist
\* gives the empty list.
C16_ListedNewestFirst ==
    pc = "listed" =>
        IF ~directory.exists THEN files = <<>>
        ELSE /\ {files[i].name : i \in 1..Len(files)}
                    = {n \in DOMAIN directory.files : directory.files[n].suffix = "jsonl"}
             /\ \A i, j \in 1..Len(files) :
                    directory.files[files[i].name].mtime
                        > directory.files[files[j].name].mtime => i < j

-----------------------------------------------------------------------------
(* Properties of the detector's transitions (SpecDetect)                   *)

\* C17: while a sub-agent is active, the step on an entry that is neither
\* an infrastructure request nor a Task invocation returns the detector to
\* MAIN and leaves the entry untagged when the entry's message count
\* exceeds that of the nearest preceding non-infrastructure entry by more
\* than 50; otherwise the sub-agent stays active and the entry is tagged.
\* This holds for every preceding count, 0 included.
C17_JumpOver50ReturnsToMain ==
    [][(/\ pc = "detect"
        /\ det_i <= Len(entries)
        /\ active_subagent # None
        /\ IsConversationEntry(entries[det_i])) =>
            IF _get_message_count(entries[det_i]).n > PrevCount(entries, det_i) + 50
            THEN /\ active_subagent' = None
                 /\ IsUntagged(entries'[det_i])
            ELSE /\ active_subagent' = active_subagent
                 /\ IsTagged(entries'[det_i], Get(active_subagent))]_vars

\* the subagent types the Task tool-use blocks of an entry's response declare
DeclaredTypes(e) ==
    IF ~Has(e, "response") THEN {}
    ELSE LET events == e.response.parsed_events
             declares(k) ==
                /\ events[k].type = "content_block_start"
                /\ IsDict(events[k].data)
                /\ events[k].data.content_block # None
                /\ IsDict(Get(events[k].data.content_block))
                /\ Get(events[k].data.content_block).type = Some("tool_use")
                /\ Get(events[k].data.content_block).name = Some("Task")
                /\ Get(events[k].data.content_block).input # None
                /\ IsDict(Get(Get(events[k].data.content_block).input))
                /\ TaskTruthy(Get(Get(events[k].data.content_block).input).subagent_type)
         IN  {Get(Get(Get(events[k].data.content_block).input).subagent_type) :
                 k \in {x \in 1..Len(events) : declares(x)}}

\* C18: the step on an entry whose response holds a Task tool-use block
\* that declares a subagent_type T, in any of its tool-use blocks, puts the
\* detector in SUBAGENT(T), from MAIN and from another SUBAGENT state, and
\* leaves the entry itself as it was: the next entry is the first one
\* considered under T.
C18_TaskInAnyBlockStartsSubagent ==
    [][(/\ pc = "detect"
        /\ det_i <= Len(entries)
        /\ DeclaredTypes(entries[det_i]) # {}) =>
            /\ active_subagent' # None
            /\ Get(active_subagent') \in DeclaredTypes(entries[det_i])
            /\ entries' = entries
            /\ det_i' = det_i + 1]_vars

-----------------------------------------------------------------------------
(* Properties of the tool input at the end of a block (SpecStream)         *)

\* the positions of the content_block_stop events of block i
StopEvents(events, i) ==
    {k \in 1..Len(events) :
        /\ events[k].type = "content_block_stop"
        /\ IsDict(events[k].data)
        /\ events[k].data.index = Some(i)}

\* the concatenation of the input_json_delta fragments of block i that the
\* events at positions k..last hold
RECURSIVE FragmentsIn(_, _, _, _)
FragmentsIn(events, i, k, last) ==
    IF k > last THEN <<>>
    ELSE LET is == /\ events[k].type = "content_block_delta"
                   /\ IsDict(events[k].data)
                   /\ events[k].data.index = Some(i)
                   /\ events[k].data.delta # None
                   /\ Get(events[k].data.delta).type = Some("input_json_delta")
                   /\ Get(events[k].data.delta).partial_json # None
         IN  (IF is THEN Get(Get(events[k].data.delta).partial_json).v ELSE <<>>)
                 \o FragmentsIn(events, i, k + 1, last)

\* the start event at position k holds the tool input text: decoded as
\* input when text is valid JSON, else as input_raw with input_parse_error
HoldsInput(events, k, text) ==
    LET content_block == Get(events[k].data.content_block)
    IN  IF json_loads(text).ok
        THEN content_block.input = Some(json_loads(text).v)
        ELSE /\ content_block.input_raw = Some(JStr(text))
             /\ content_block.input_parse_error # None

\* the first stop event of block i after position k, 0 if there is none
FirstStopAfter(events, i, k) ==
    LET after == {x \in StopEvents(events, i) : x > k}
    IN  IF after = {} THEN 0 ELSE CHOOSE x \in after : \A y \in after : x <= y

\* C19: once the content_block_stop of a tool-use block has been read, the
\* block's content_block_start event holds, in its content_block, the
\* decoded input if the concatenation of the block's fragments is valid
\* JSON and else input_raw = the concatenation with input_parse_error, for
\* every concatenation, the empty one included; delta and stop events of
\* the same index that come after the stop change nothing of it.
C19_StopWritesInputIntoStartEvent ==
    pc \in {"sse", "processed"} =>
        \A k \in StartEvents(sse.events, 1) :
            FirstStopAfter(sse.events, 1, k) # 0 =>
                HoldsInput(sse.events, k,
                           FragmentsIn(sse.events, 1, k, FirstStopAfter(sse.events, 1, k)))

\* C20: no tool input is lost silently: when the whole stream has been
\* read, the content_block_start event of every tool-use block whose
\* fragments do not concatenate to valid JSON carries input_raw = the
\* concatenation and an input_parse_error, whether the block was closed by
\* a content_block_stop or the stream ended before the stop.
C20_InvalidInputKeptRaw ==
    pc = "processed" =>
        \A k \in StartEvents(sse.events, 1) :
            LET last == IF FirstStopAfter(sse.events, 1, k) # 0
                        THEN FirstStopAfter(sse.events, 1, k) ELSE Len(sse.events)
                text == FragmentsIn(sse.events, 1, k, last)
            IN  ~json_loads(text).ok =>
                    /\ Get(sse.events[k].data.content_block).input_raw = Some(JStr(text))
                    /\ Get(sse.events[k].data.content_block).input_parse_error # None

-----------------------------------------------------------------------------
(* Properties of the event list (SpecStream)                               *)

\* the names of the event lines among the first n lines of raw, in order
RECURSIVE EventNames(_, _)
EventNames(raw, n) ==
    IF n = 0 THEN <<>>
    ELSE EventNames(raw, n - 1) \o (IF raw[n].k = "event" THEN <<raw[n].name>> ELSE <<>>)

\* C21: the event list holds exactly one event per event line read so far,
\* in the order of the event lines; data lines, blank lines, other lines
\* and the completion of a start event in place add, remove and reorder
\* no event.
C21_OneEventPerEventLine ==
    pc \in {"sse", "processed", "raised"} =>
        [k \in 1..Len(sse.events) |-> sse.events[k].type] = EventNames(body_raw, sse_i - 1)

\* a stream of seven events, whose start event was completed in place
C21_Witness ==
    /\ pc = "processed"
    /\ Len(sse.events) = 7
    /\ \E k \in StartEvents(sse.events, 1) :
        /\ Get(sse.events[k].data.content_block).input
              = Some([t |-> "obj", subagent_type |-> Some("reviewer"), description |-> None])
        /\ sse.events[k + 1].type = "content_block_delta"

\* the number of the event opened by the nearest event line among the lines
\* 1..j of raw with no blank line after it, 0 if there is none
RECURSIVE OpenEventAt(_, _)
OpenEventAt(raw, j) ==
    IF j = 0 \/ raw[j].k = "blank" THEN 0
    ELSE IF raw[j].k = "event" THEN Cardinality({x \in 1..j : raw[x].k = "event"})
    ELSE OpenEventAt(raw, j - 1)

\* C22: a blank line delimits events: a data line is attached only to the
\* event opened by the nearest preceding event line with no blank line in
\* between; a data line before any event line, or after a blank line
\* without a new event line, changes no event.
C22_BlankLineDelimitsEvents ==
    [][(/\ pc = "sse"
        /\ sse_i <= Len(body_raw)
        /\ body_raw[sse_i].k = "data") =>
            LET open == OpenEventAt(body_raw, sse_i - 1)
            IN  /\ Len(sse'.events) = Len(sse.events)
                /\ \A k \in 1..Len(sse.events) :
                        sse'.events[k].raw # sse.events[k].raw => k = open
                /\ open = 0 => sse'.events = sse.events]_vars

\* C23: a data line that holds the [DONE] sentinel is a no-op: the events,
\* the current event, the accumulators and the start event references are
\* after the line what they were before it, and no exception is raised.
C23_DoneIsNoOp ==
    [][(/\ pc = "sse"
        /\ sse_i <= Len(body_raw)
        /\ body_raw[sse_i] = DataDone) =>
            /\ sse' = sse
            /\ pc' = "sse"]_vars

\* the sentinel was read while an event was open that holds data, and
\* while a tool-use block was accumulating
C23_Witness ==
    /\ pc = "sse"
    /\ sse_i > 1
    /\ body_raw[sse_i - 1] = DataDone
    /\ sse.cur # 0
    /\ \/ sse.events[sse.cur].data # PyNone
       \/ 1 \in DOMAIN sse.content_blocks

-----------------------------------------------------------------------------
(* Properties of tool-use blocks open at the same time (SpecStream)        *)

\* the data of the event at position k as its last data line streamed it
AsStreamed(events, k) == events[k].raw[Len(events[k].raw)].payload.v

\* C29: tool-use blocks of different indices that are open at the same
\* time accumulate independently, for every interleaving of their deltas:
\* while a block is open its accumulator is the concatenation of the
\* input_json_delta fragments of its own index in arrival order and its
\* start event is as streamed; once it is stopped its start event holds
\* the input decoded from that concatenation; a delta that is no
\* input_json_delta or whose index has no open block reaches no
\* accumulator, and no accumulator exists for an index that was not opened.
C29_OpenBlocksAccumulateIndependently ==
    (pc \in {"sse", "processed"} /\ body_raw \in InterleavedStreams) =>
        /\ \A i \in DOMAIN sse.content_blocks : StartEvents(sse.events, i) # {}
        /\ \A i \in {0, 1} : \A k \in StartEvents(sse.events, i) :
            LET stop == FirstStopAfter(sse.events, i, k)
            IN  IF stop = 0
                THEN /\ i \in DOMAIN sse.content_blocks
                     /\ sse.content_blocks[i] = FragmentsIn(sse.events, i, k, Len(sse.events))
                     /\ sse.events[k].data = AsStreamed(sse.events, k)
                ELSE /\ i \notin DOMAIN sse.content_blocks
                     /\ LET text == FragmentsIn(sse.events, i, k, stop)
                        IN  json_loads(text).ok =>
                                Get(sse.events[k].data.content_block).input
                                    = Some(json_loads(text).v)

\* both blocks were completed from their own fragments, which arrived
\* alternately and among deltas that belong to neither
C29_Witness ==
    /\ pc = "processed"
    /\ body_raw = NoisyInterleaved
    /\ \E k \in StartEvents(sse.events, 0) :
        Get(sse.events[k].data.content_block).input
            = Some([t |-> "obj", subagent_type |-> Some("reviewer"), description |-> None])
    /\ \E k \in StartEvents(sse.events, 1) :
        Get(sse.events[k].data.content_block).input
            = Some([t |-> "obj", subagent_type |-> None, description |-> Some("x")])

-----------------------------------------------------------------------------
(* The detector's Task trigger on reassembled tool input (SpecReassembly)  *)

\* the body_raw of the response entry k was made from
ResponseStream(es, k) == es[k].response.body_raw.v

\* the content_block_stop of block 0 is among the lines of the stream
StopReceived(raw) ==
    \E j \in 1..Len(raw) : raw[j] = Data(DataObj(Some(0), None, None, None))

\* the fragments of the stream concatenate to the text of an object with a
\* non-empty subagent_type
DecodesToSubagent(raw) ==
    LET loaded == json_loads(Concat(DeltaFragments(raw)))
    IN  loaded.ok /\ IsDict(loaded.v) /\ TaskTruthy(loaded.v.subagent_type)

Triggers(raw) == StopReceived(raw) /\ DecodesToSubagent(raw)

\* C30: the detector's Task trigger reads the input the parser
\* reassembled.  For Task blocks whose subagent_type arrives only in
\* input_json_delta fragments, an entry starts a sub-agent exactly when
\* its block's content_block_stop was received and the concatenated
\* fragments decode to an object with a non-empty subagent_type T: the
\* entries after it are tagged T up to the next such entry.  An entry
\* whose stop is missing or whose fragments do not decode starts nothing:
\* it and the entries after it are tagged as if it held no Task block.
C30_TriggerReadsReassembledInput ==
    pc = "returned" =>
        \A p \in 1..Len(entries) :
            LET triggered == {q \in 1..(p - 1) : Triggers(ResponseStream(entries, q))}
            IN  /\ InvokesTask(entries[p]) <=> Triggers(ResponseStream(entries, p))
                /\ IF Triggers(ResponseStream(entries, p)) \/ triggered = {}
                   THEN IsUntagged(entries[p])
                   ELSE LET raw == ResponseStream(entries, SetMax(triggered))
                        IN  IsTagged(entries[p],
                                     Get(json_loads(Concat(DeltaFragments(raw))).v.subagent_type))

\* a Task block that was cut off before its stop, then one delivered in
\* three fragments and stopped, then an entry tagged with its subagent_type
C30_Witness ==
    /\ pc = "returned"
    /\ Len(entries) = 3
    /\ DecodesToSubagent(ResponseStream(entries, 1))
    /\ ~StopReceived(ResponseStream(entries, 1))
    /\ IsUntagged(entries[2])
    /\ Len(DeltaFragments(ResponseStream(entries, 2))) = 3
    /\ Triggers(ResponseStream(entries, 2))
    /\ IsTagged(entries[3], "reviewer")

-----------------------------------------------------------------------------
(* Properties of the detector's output (SpecDetect)                        *)

\* the nearest entry before k whose response invokes Task with a
\* subagent_type, 0 if there is none
NearestTaskBefore(es, k) ==
    LET before == {j \in 1..(k - 1) : DeclaredTypes(es[j]) # {}}
    IN  IF before = {} THEN 0 ELSE SetMax(before)

\* C28: an entry ends with is_subagent = True only if an earlier entry
\* invoked Task with a subagent_type; its agent_type is then the
\* subagent_type of the nearest preceding Task-invoking entry, its
\* detection_method is "conversation_flow", and no return to main lies
\* between that entry and it.  No entry before the first Task invocation
\* is tagged, and none between a return to main and the next invocation.
C28_TaggedOnlyAfterTaskInvocation ==
    pc = "returned" =>
        \A k \in 1..Len(entries) :
            (Has(entries[k], "subagent_info") /\ entries[k].subagent_info.is_subagent) =>
                LET j == NearestTaskBefore(entries, k)
                IN  /\ j # 0
                    /\ entries[k].subagent_info.agent_type # None
                    /\ Get(entries[k].subagent_info.agent_type) \in DeclaredTypes(entries[j])
                    /\ entries[k].subagent_info.detection_method = Some("conversation_flow")
                    /\ \A x \in (j + 1)..k : ~JumpsAt(entries, x)

-----------------------------------------------------------------------------
(* retry_file_operation (src/amplifier/slides_tool/utils.py).  func is the *)
(* environment: a call returns a value or raises, and what it did is an    *)
(* outcome [type, errno, value] with type "return", "OSError" or           *)
(* "ValueError".  retry holds the arguments, the loop variables attempt,   *)
(* delay and last_error, the outcomes of the calls made so far (calls),    *)
(* the sleeps made (slept) and what left the function (result, error).     *)
(* Delays are in tenths of a second.                                       *)

MaxRetries == 3
MaxBackoff == 2

\* e.errno == 5  (line 36)
ErrnoIO == 5

Returns(v) == [type |-> "return", errno |-> 0, value |-> v]
Raises(type, errno) == [type |-> type, errno |-> errno, value |-> ""]

\* what one call of func may do
Outcomes ==
    {Returns(v) : v \in {"a", "b"}}
        \cup {Raises("OSError", e) : e \in {ErrnoIO, 2, 13}}
        \cup {Raises("ValueError", 0)}

\* every OSError retried, whatever its errno
ShouldRetryAnyErrno(e, attempt, max_retries) == attempt < max_retries - 1

\* e.errno == 5 and attempt < max_retries - 1  (line 36)
ShouldRetry(e, attempt, max_retries) == e.errno = ErrnoIO /\ attempt < max_retries - 1

\* the state at the call of retry_file_operation  (lines 29-30)
RetryStart(max_retries, initial_delay, backoff_factor) ==
    [max_retries |-> max_retries, backoff_factor |-> backoff_factor,
     attempt |-> 0, delay |-> initial_delay, last_error |-> PyNone,
     calls |-> <<>>, slept |-> <<>>, result |-> PyNone, error |-> PyNone]

\* one iteration of the loop of lines 32-46, in which func does outcome;
\* left is "" while the loop goes on
retry_iteration(r, outcome) ==
    LET called == [r EXCEPT !.calls = Append(@, outcome)]
    IN  IF outcome.type = "return"
        THEN [left |-> "returned", r |-> [called EXCEPT !.result = outcome]]
        ELSE IF outcome.type # "OSError"
        THEN [left |-> "raised", r |-> [called EXCEPT !.error = outcome]]
        ELSE IF ShouldRetry(outcome, r.attempt, r.max_retries)
        THEN [left |-> "",
              r |-> [called EXCEPT !.last_error = outcome,
                                   !.slept = Append(@, r.delay),
                                   !.delay = r.delay * r.backoff_factor,
                                   !.attempt = r.attempt + 1]]
        ELSE [left |-> "raised",
              r |-> [called EXCEPT !.last_error = outcome, !.error = outcome]]

InitRetry ==
    /\ pc = "retry"
    /\ FileIdle
    /\ StreamIdle
    /\ CallIdle
    /\ manager = PyNone
    /\ improve = PyNone
    /\ retry \in {RetryStart(n, d, b) : n \in 0..MaxRetries, d \in {1, 5}, b \in 1..MaxBackoff}

InLoop == pc = "retry" /\ retry.attempt < retry.max_retries

RetryApply(outcome) ==
    /\ retry' = retry_iteration(retry, outcome).r
    /\ pc' = IF retry_iteration(retry, outcome).left = "" THEN pc
             ELSE retry_iteration(retry, outcome).left
    /\ UNCHANGED <<fileVars, streamVars, callVars, manager, improve>>

\* line 34: func returns
RetryReturns ==
    \E outcome \in Outcomes :
        /\ InLoop
        /\ outcome.type = "return"
        /\ RetryApply(outcome)

\* lines 35-44: an OSError that is retried after a sleep
RetrySleeps ==
    \E outcome \in Outcomes :
        /\ InLoop
        /\ outcome.type = "OSError"
        /\ retry_iteration(retry, outcome).left = ""
        /\ RetryApply(outcome)

\* lines 45-46: an OSError that is raised again
RetryRaises ==
    \E outcome \in Outcomes :
        /\ InLoop
        /\ outcome.type = "OSError"
        /\ retry_iteration(retry, outcome).left = "raised"
        /\ RetryApply(outcome)

\* an exception that is no OSError leaves the function
RetryPropagates ==
    \E outcome \in Outcomes :
        /\ InLoop
        /\ outcome.type \notin {"return", "OSError"}
        /\ RetryApply(outcome)

\* lines 49-51: the loop ended without a return
RetryExhausted ==
    /\ pc = "retry"
    /\ retry.attempt >= retry.max_retries
    /\ retry' = [retry EXCEPT !.error = IF retry.last_error # PyNone THEN retry.last_error
                                        ELSE Raises("RuntimeError", 0)]
    /\ pc' = "raised"
    /\ UNCHANGED <<fileVars, streamVars, callVars, manager, improve>>

NextRetry == RetryReturns \/ RetrySleeps \/ RetryRaises \/ RetryPropagates \/ RetryExhausted

SpecRetry == InitRetry /\ [][NextRetry]_vars

\* C24: with max_retries = n >= 1, func is called at most n times, and
\* again only after a call that raised OSError with errno 5 while fewer
\* than n calls were made; the function returns the value of the first
\* call that succeeds; any other exception, and the errno 5 of the n-th
\* call, leave the function without a further call; the loop does not end
\* in another way.
C24_RetriesOnlyErrno5UpToMaxRetries ==
    (pc \in {"retry", "returned", "raised"} /\ retry.max_retries >= 1) =>
        LET made == Len(retry.calls)
            last == retry.calls[made]
            is_eio(k) == retry.calls[k].type = "OSError" /\ retry.calls[k].errno = 5
        IN  /\ made <= retry.max_retries
            /\ \A k \in 1..(made - 1) : is_eio(k)
            /\ pc = "retry" => (\A k \in 1..made : is_eio(k)) /\ made < retry.max_retries
            /\ pc = "returned" => last.type = "return" /\ retry.result = last
            /\ pc = "raised" =>
                /\ made >= 1
                /\ last.type # "return"
                /\ retry.error = last
                /\ is_eio(made) => made = retry.max_retries

\* two errno-5 failures, then a success, with the default max_retries = 3
C24_Witness ==
    /\ pc = "returned"
    /\ retry.max_retries = 3
    /\ retry.calls = <<Raises("OSError", 5), Raises("OSError", 5), Returns("a")>>
    /\ retry.result = Returns("a")
    /\ retry.slept = <<5, 10>>

-----------------------------------------------------------------------------
(* The checkpoints of StateManager and QuickSave                           *)
(* (src/amplifier/slides_tool/state_manager.py).  A checkpoint name is a   *)
(* sequence of tokens that "_" joins; a file of the checkpoints directory  *)
(* is [name, stamp], "<name>_<stamp>.json", stamp the second of the write. *)
(* The clock counts the ticks of the file system's timestamps: a file's    *)
(* mtime is the tick of its last write, and writes within one tick get the *)
(* same mtime.  glob returns the files in arbitrary order, so a stable     *)
(* sort by mtime leaves files of equal mtime in any order.  A file holds   *)
(* its data and mtime and, as history, the number n of the write.          *)

MaxSaves == 3
MaxTicks == 2
TicksPerSecond == 2

\* keep=10  (line 107)
Keep == 10

\* datetime.now().strftime("%Y%m%d_%H%M%S")  (line 101)
Timestamp(clock) == clock \div TicksPerSecond

\* checkpoint_dir / f"{checkpoint_name}_{timestamp}.json"  (line 102)
CheckpointFile(checkpoint_name, clock) == [name |-> checkpoint_name, stamp |-> Timestamp(clock)]

\* glob(f"{checkpoint_name}_*.json")  (line 119): the file's name starts
\* with the checkpoint name and "_"
GlobMatches(f, checkpoint_name) == StartsWith(f.name, checkpoint_name)

\* the files that sorted(..., key=mtime, reverse=True)[:keep] may hold
\* (lines 195-197)
KeptChoices(checkpoints, keep) ==
    LET all == DOMAIN checkpoints
        size == IF Cardinality(all) < keep THEN Cardinality(all) ELSE keep
    IN  {kept \in SUBSET all :
            /\ Cardinality(kept) = size
            /\ \A k \in kept : \A d \in all \ kept :
                  checkpoints[k].mtime >= checkpoints[d].mtime}

\* lines 193-198, when the sort leaves kept in front
_cleanup_old_checkpoints(mg, kept) ==
    [mg EXCEPT !.checkpoints = [f \in kept |-> mg.checkpoints[f]],
               !.removed = @ \cup {mg.checkpoints[f].n : f \in (DOMAIN mg.checkpoints) \ kept}]

\* write_json(data, checkpoint_file)  (lines 101-104)
WriteCheckpoint(mg, data, checkpoint_name) ==
    LET checkpoint_file == CheckpointFile(checkpoint_name, mg.clock)
    IN  [mg EXCEPT !.checkpoints = DictSet(@, checkpoint_file,
                                           [data |-> data, mtime |-> mg.clock, n |-> mg.writes + 1]),
                   !.writes = mg.writes + 1,
                   !.last = Some(checkpoint_file)]

\* lines 92-109: the managers the call may leave
save_checkpoint(mg, data, checkpoint_name) ==
    LET written == WriteCheckpoint(mg, data, checkpoint_name)
    IN  {_cleanup_old_checkpoints(written, kept) : kept \in KeptChoices(written.checkpoints, Keep)}

\* lines 111-125: the checkpoints the call may return, PyNone for None
load_latest_checkpoint(mg, checkpoint_name) ==
    LET matching == {f \in DOMAIN mg.checkpoints : GlobMatches(f, checkpoint_name)}
        first == {f \in matching :
                    \A g \in matching : mg.checkpoints[f].mtime >= mg.checkpoints[g].mtime}
    IN  IF matching = {} THEN {PyNone} ELSE {mg.checkpoints[f] : f \in first}

NoData == [stage |-> 0, completed |-> FALSE, error |-> FALSE]

\* a directory that earlier runs left: a QuickSave "old" that was updated
\* and left within one tick, then eight checkpoints "old", one per second
PriorCheckpoints ==
    LET path(k) == IF k = 2 THEN [name |-> <<"old", "final">>, stamp |-> 0]
                   ELSE [name |-> <<"old">>, stamp |-> IF k = 1 THEN 0 ELSE k - 2]
        held(k) == [data |-> [NoData EXCEPT !.completed = (k = 2)],
                    mtime |-> IF k <= 2 THEN 0 ELSE (k - 2) * TicksPerSecond,
                    n |-> k]
    IN  [f \in {path(k) : k \in 1..Keep} |-> held(CHOOSE k \in 1..Keep : path(k) = f)]

\* StateManager(base_dir) on a directory with the given checkpoints
ManagerStart(checkpoints) ==
    LET written == Cardinality(DOMAIN checkpoints)
    IN  [checkpoints |-> checkpoints, clock |-> written * TicksPerSecond, start |-> written,
         writes |-> written, removed |-> {}, last |-> None, quick |-> PyNone,
         wanted |-> <<>>, loaded |-> PyNone]

InitCheckpoint ==
    /\ pc = "checkpoint"
    /\ FileIdle
    /\ StreamIdle
    /\ CallIdle
    /\ retry = PyNone
    /\ improve = PyNone
    /\ manager \in {ManagerStart(EmptyDict), ManagerStart(PriorCheckpoints)}

CanSave == pc = "checkpoint" /\ manager.writes < manager.start + MaxSaves

Saved(data, checkpoint_name) ==
    /\ manager' \in save_checkpoint(manager, data, checkpoint_name)
    /\ UNCHANGED <<pc, fileVars, streamVars, callVars, retry, improve>>

\* the file system's clock moves on to its next tick
Tick ==
    /\ pc = "checkpoint"
    /\ manager.clock < (manager.start + MaxTicks) * TicksPerSecond
    /\ manager' = [manager EXCEPT !.clock = @ + 1]
    /\ UNCHANGED <<pc, fileVars, streamVars, callVars, retry, improve>>

\* lines 92-109, called by another caller than QuickSave
SaveCheckpoint ==
    \E checkpoint_name \in {<<"gen">>, <<"rev">>} :
        /\ CanSave
        /\ Saved(NoData, checkpoint_name)

\* lines 204-208 and 215-217: with QuickSave(state_manager, name)
QuickSaveEnter ==
    /\ pc = "checkpoint"
    /\ manager.quick = PyNone
    /\ manager' = [manager EXCEPT !.quick = [name |-> <<"gen">>, data |-> NoData]]
    /\ UNCHANGED <<pc, fileVars, streamVars, callVars, retry, improve>>

\* lines 210-213
QuickSaveUpdate ==
    /\ CanSave
    /\ manager.quick # PyNone
    /\ LET data == [manager.quick.data EXCEPT !.stage = @ + 1]
       IN  \E saved \in save_checkpoint(manager, data, manager.quick.name) :
                manager' = [saved EXCEPT !.quick.data = data]
    /\ UNCHANGED <<pc, fileVars, streamVars, callVars, retry, improve>>

\* lines 219-228: the with block is left, normally or by an exception
QuickSaveExit ==
    \E raised \in BOOLEAN :
        /\ CanSave
        /\ manager.quick # PyNone
        /\ LET data == IF raised THEN [manager.quick.data EXCEPT !.error = TRUE]
                       ELSE [manager.quick.data EXCEPT !.completed = TRUE]
               checkpoint_name == manager.quick.name \o (IF raised THEN <<"error">> ELSE <<"final">>)
           IN  \E saved \in save_checkpoint(manager, data, checkpoint_name) :
                    manager' = [saved EXCEPT !.quick = PyNone]
        /\ UNCHANGED <<pc, fileVars, streamVars, callVars, retry, improve>>

\* lines 111-125
LoadLatestCheckpoint ==
    \E checkpoint_name \in {<<"gen">>, <<"rev">>, <<"old">>, <<"gen", "final">>} :
        /\ pc = "checkpoint"
        /\ \E found \in load_latest_checkpoint(manager, checkpoint_name) :
                manager' = [manager EXCEPT !.wanted = checkpoint_name, !.loaded = found]
        /\ pc' = "loaded"
        /\ UNCHANGED <<fileVars, streamVars, callVars, retry, improve>>

NextCheckpoint ==
    \/ Tick
    \/ SaveCheckpoint
    \/ QuickSaveEnter
    \/ QuickSaveUpdate
    \/ QuickSaveExit
    \/ LoadLatestCheckpoint

SpecCheckpoint == InitCheckpoint /\ [][NextCheckpoint]_vars

\* C25: after any sequence of save_checkpoint calls, under any mix of
\* names, the checkpoints directory holds at most 10 files, every file it
\* holds was written after every file that was removed, and the file the
\* latest call wrote is among them.
C25_KeepsTheTenLatestCheckpoints ==
    pc \in {"checkpoint", "loaded"} =>
        /\ Cardinality(DOMAIN manager.checkpoints) <= 10
        /\ \A f \in DOMAIN manager.checkpoints : \A d \in manager.removed :
              manager.checkpoints[f].n > d
        /\ manager.last # None => Get(manager.last) \in DOMAIN manager.checkpoints

\* C26: load_latest_checkpoint(name) returns the most recently written
\* checkpoint that was saved under exactly that name and is still in the
\* directory, None when there is none; a checkpoint saved under another
\* name, such as <name>_final or <name>_error, is never returned.
C26_LoadsLatestOfExactName ==
    pc = "loaded" =>
        LET exact == {f \in DOMAIN manager.checkpoints : f.name = manager.wanted}
            latest == CHOOSE f \in exact :
                        \A g \in exact : manager.checkpoints[f].n >= manager.checkpoints[g].n
        IN  manager.loaded = IF exact = {} THEN PyNone ELSE manager.checkpoints[latest]

-----------------------------------------------------------------------------
(* RevisionOrchestrator.auto_improve                                       *)
(* (src/amplifier/slides_tool/review/orchestrator.py).  The analyzer and   *)
(* the generator are the environment: an analysis returns a review         *)
(* [overall_score, needs_revision, issues] or raises, a revision succeeds  *)
(* or raises.  Scores are whole numbers of 0..10.  improve holds the       *)
(* request, the loop variables iteration_num and previous_score, the       *)
(* iterations recorded, the number of analyses made and the result.        *)

MaxIterations == 3

Scores == {0, 3, 5, 8}

\* what self.analyzer.analyze may return  (line 103)
Reviews == [overall_score : Scores, needs_revision : BOOLEAN, issues : BOOLEAN]

\* the state at the call  (lines 61-63, 90)
ImproveStart(max_iterations, target_score, exists) ==
    [max_iterations |-> max_iterations, target_score |-> target_score, exists |-> exists,
     iteration_num |-> 1, previous_score |-> PyNone, iterations |-> <<>>, analyses |-> 0,
     success |-> FALSE, stopped_reason |-> "", final_score |-> PyNone, error |-> ""]

\* RevisionIteration(...)  (lines 109-115, 131-137, 203-209, 216-222)
RevisionIteration(im, review, revision_applied, improvement_delta) ==
    [iteration |-> im.iteration_num, overall_score |-> review.overall_score,
     revision_applied |-> revision_applied, improvement_delta |-> improvement_delta]

\* the return of lines 117-125, 139-147 and 227-235
ImproveResult(im, stopped_reason) ==
    [im EXCEPT !.success = TRUE,
               !.stopped_reason = stopped_reason,
               !.final_score = IF im.iterations = <<>> THEN PyNone
                               ELSE JNum(im.iterations[Len(im.iterations)].overall_score)]

\* the return of lines 239-247 and 66-74; error names what failed
ImproveError(im, error) ==
    [im EXCEPT !.success = FALSE,
               !.stopped_reason = "error",
               !.error = error,
               !.final_score = IF im.iterations = <<>> THEN PyNone
                               ELSE JNum(im.iterations[Len(im.iterations)].overall_score)]

\* previous_score and review_result.overall_score <= previous_score  (line 128)
NoImprovement(previous_score, overall_score) ==
    Truthy(previous_score) /\ overall_score <= previous_score.v

\* the branch the iteration takes on the review  (lines 106, 128, 150)
ImproveBranch(im, review) ==
    IF review.overall_score >= im.target_score THEN "target_reached"
    ELSE IF NoImprovement(im.previous_score, review.overall_score) THEN "no_improvement"
    ELSE IF review.needs_revision /\ review.issues THEN "revise"
    ELSE "no_revision"

\* the iteration recorded without a revision  (lines 108-116, 130-138, 215-223)
Unrevised(im, review) ==
    [im EXCEPT !.analyses = @ + 1,
               !.iterations = Append(@, RevisionIteration(im, review, FALSE, 0))]

\* lines 198-212
Revised(im, review) ==
    LET improvement_delta == IF Truthy(im.previous_score)
                             THEN review.overall_score - im.previous_score.v
                             ELSE review.overall_score
    IN  [im EXCEPT !.analyses = @ + 1,
                   !.iterations = Append(@, RevisionIteration(im, review, TRUE, improvement_delta)),
                   !.previous_score = JNum(review.overall_score),
                   !.iteration_num = @ + 1]

InitImprove ==
    /\ pc = "improve"
    /\ FileIdle
    /\ StreamIdle
    /\ CallIdle
    /\ retry = PyNone
    /\ manager = PyNone
    /\ improve \in {ImproveStart(n, target, exists) :
                        n \in 1..MaxIterations, target \in {5, 8}, exists \in BOOLEAN}

Iterating(review, branch) ==
    /\ pc = "improve"
    /\ improve.exists
    /\ improve.iteration_num <= improve.max_iterations
    /\ ImproveBranch(improve, review) = branch

ImproveFrame == UNCHANGED <<fileVars, streamVars, callVars, retry, manager>>

\* lines 65-74
ImproveMissingFile ==
    /\ pc = "improve"
    /\ ~improve.exists
    /\ improve' = ImproveError(improve, "not_found")
    /\ pc' = "returned"
    /\ ImproveFrame

\* lines 103-125
ImproveTargetReached ==
    \E review \in Reviews :
        /\ Iterating(review, "target_reached")
        /\ improve' = ImproveResult(Unrevised(improve, review), "target_reached")
        /\ pc' = "returned"
        /\ ImproveFrame

\* lines 103 and 128-147
ImproveNoImprovement ==
    \E review \in Reviews :
        /\ Iterating(review, "no_improvement")
        /\ improve' = ImproveResult(Unrevised(improve, review), "no_improvement")
        /\ pc' = "returned"
        /\ ImproveFrame

\* lines 103 and 150-212: the revision is applied and the loop goes on
ImproveRevise ==
    \E review \in Reviews :
        /\ Iterating(review, "revise")
        /\ improve' = Revised(improve, review)
        /\ UNCHANGED pc
        /\ ImproveFrame

\* lines 103 and 213-235: no revision needed, break, and the return after
\* the loop
ImproveNoRevision ==
    \E review \in Reviews :
        /\ Iterating(review, "no_revision")
        /\ improve' = ImproveResult(Unrevised(improve, review), "max_iterations")
        /\ pc' = "returned"
        /\ ImproveFrame

\* lines 226-235: the loop ran max_iterations times
ImproveLoopEnds ==
    /\ pc = "improve"
    /\ improve.exists
    /\ improve.iteration_num > improve.max_iterations
    /\ improve' = ImproveResult(improve, "max_iterations")
    /\ pc' = "returned"
    /\ ImproveFrame

\* line 103 raises: lines 237-247
ImproveAnalyzeRaises ==
    /\ pc = "improve"
    /\ improve.exists
    /\ improve.iteration_num <= improve.max_iterations
    /\ improve' = ImproveError([improve EXCEPT !.analyses = @ + 1], "analyze")
    /\ pc' = "returned"
    /\ ImproveFrame

\* one of lines 151-196 raises: lines 237-247
ImproveReviseRaises ==
    \E review \in Reviews :
        /\ Iterating(review, "revise")
        /\ improve' = ImproveError([improve EXCEPT !.analyses = @ + 1], "revise")
        /\ pc' = "returned"
        /\ ImproveFrame

NextImprove ==
    \/ ImproveMissingFile
    \/ ImproveTargetReached
    \/ ImproveNoImprovement
    \/ ImproveRevise
    \/ ImproveNoRevision
    \/ ImproveLoopEnds
    \/ ImproveAnalyzeRaises
    \/ ImproveReviseRaises

SpecImprove == InitImprove /\ [][NextImprove]_vars

\* C27: auto_improve makes at most max_iterations analyses and returns
\* stopped_reason "max_iterations" only when max_iterations iterations
\* were carried out and recorded; "target_reached" is returned on a score
\* >= target_score; an iteration whose score is not above the score of the
\* iteration before it, whatever that score, 0 included, and is below the
\* target ends the run with "no_improvement".
C27_MaxIterationsOnlyAfterAllIterations ==
    pc \in {"improve", "returned"} =>
        LET made == Len(improve.iterations)
        IN  /\ improve.analyses <= improve.max_iterations
            /\ improve.stopped_reason = "max_iterations" =>
                  made = improve.max_iterations /\ improve.analyses = improve.max_iterations
            /\ improve.stopped_reason = "target_reached" =>
                  improve.iterations[made].overall_score >= improve.target_score
            /\ improve.stopped_reason = "no_improvement" =>
                  /\ made >= 2
                  /\ improve.iterations[made].overall_score <= improve.iterations[made - 1].overall_score
            /\ \A k \in 2..made :
                  (/\ improve.iterations[k].overall_score <= improve.iterations[k - 1].overall_score
                   /\ improve.iterations[k].overall_score < improve.target_score) =>
                        k = made /\ improve.stopped_reason = "no_improvement"


====
